---- MODULE Spec2Model ----
(***************************************************************************)
(* Model of the photomosaic placement engine of opa_harries_herinneringen: *)
(* the position resolver (utils/positionResolver), the memories store with *)
(* its placement allocator (stores/memories), the mosaic store             *)
(* (stores/mosaic), the Firestore service and the submission form.         *)
(*                                                                         *)
(* Conventions                                                             *)
(*   - a GridPosition is a record [row, col];                              *)
(*   - `GridPosition | null` is a sequence of length <= 1: <<>> is null;   *)
(*   - alpha is kept in hundredths (0.1 is 10, 1.0 is 100);                *)
(*   - a position key `${row}-${col}` is the sequence of its characters.   *)
(***************************************************************************)
EXTENDS Integers, Sequences, FiniteSets, TLC

VARIABLES
    config,               \* mosaicStore.config: gridWidth, gridHeight, cardColors
    \* ---- one call of resolveAllMemoryPositions (positionResolver) ----
    rMemories,            \* the `memories` argument
    rMode,                \* the `mode` argument
    resolutionMap,        \* local Map<string, GridPosition>
    tempUsedPositions,    \* local Set<string>
    rIndex,               \* position of the for-of loop over memories
    rPc,                  \* "loop" | "done" ("off" outside SpecResolve)
    rRuns,                \* number of calls started on these arguments
    firstMap,             \* the map returned by the first call
    \* ---- one call of findNearestValidUnusedPosition ----
    sStart,               \* startPosition
    sUsed,                \* usedPositions
    sRadius,              \* loop variable `radius`
    sIdx,                 \* index of the next candidate of this ring
    sTried,               \* candidates tested so far, in order
    sResult,              \* returned value once sPc = "done"
    sPc,                  \* "search" | "done" ("off" outside SpecSearch)
    \* ---- clients submitting memories against one Firestore collection ----
    db,                   \* the `memories` collection, ordered by timestamp
    memories,             \* per client: memoriesStore.memories
    selectedCardPosition, \* per client: uiStore.selectedCardPosition
    isSubmissionFormOpen, \* per client: uiStore.isSubmissionFormOpen
    targetPosition,       \* per client: local `targetPosition` of submitForm
    pc,                   \* per client: where its submitForm is suspended
    error,                \* per client: `error` ref of the form
    \* ---- one call of getNextEmptyPosition ----
    aMemories,            \* memoriesStore.memories at the call
    aResult,              \* returned value once aPc = "done"
    aPc,                  \* "call" | "done" ("off" outside SpecAllocate)
    \* ---- the engine operations over one state of the stores ----
    eMemories,            \* memoriesStore.memories
    currentMode,          \* UnifiedMosaicView.currentMode
    eResolved,            \* value of the computed resolvedPositions, if computed
    eSingle,              \* last result of resolveMemoryPosition, if any
    eNext,                \* last result of getNextEmptyPosition, if any
    \* ---- one call of analyzeReferencePhoto (photoAnalyzer) ----
    img,                  \* the loaded image: width, height, RGBA pixels
    anGridWidth,          \* the `gridWidth` argument
    anGridHeight,         \* the `gridHeight` argument
    cardColors,           \* local array `cardColors`
    anRow,                \* loop variable `row`
    anCol,                \* loop variable `col`
    anPc,                 \* "load" | "loop" | "done" | "error" ("off" elsewhere)
    \* ---- one call of calculateGridDimensions (photoAnalyzer) ----
    dImgWidth,            \* img.width
    dImgHeight,           \* img.height
    dTargetCards,         \* the `targetCards` argument
    dResult,              \* returned { gridWidth, gridHeight }, if returned
    dPc,                  \* "call" | "done" | "error" ("off" elsewhere)
    \* ---- components of the page, one record of refs per component ----
    store,                \* stores/mosaic: config object, isLoading, error
    form,                 \* SubmissionForm: form refs and what it persisted
    home,                 \* HomeView and its LoadingScreen
    view,                 \* UnifiedMosaicView: canvas, viewer, cache, tasks
    modal                 \* MemoryModal: memories and the ui store's modal refs

resolveVars == <<rMemories, rMode, resolutionMap, tempUsedPositions, rIndex,
                 rPc, rRuns, firstMap>>
searchVars == <<sStart, sUsed, sRadius, sIdx, sTried, sResult, sPc>>
submitVars == <<db, memories, selectedCardPosition, isSubmissionFormOpen,
                targetPosition, pc, error>>
allocVars == <<aMemories, aResult, aPc>>
engineVars == <<eMemories, currentMode, eResolved, eSingle, eNext>>
analyzeVars == <<img, anGridWidth, anGridHeight, cardColors, anRow, anCol, anPc>>
dimVars == <<dImgWidth, dImgHeight, dTargetCards, dResult, dPc>>
uiVars == <<store, form, home, view, modal>>
coreVars == <<config, resolveVars, searchVars, submitVars, allocVars, engineVars,
              analyzeVars, dimVars>>
vars == <<coreVars, uiVars>>

(***************************************************************************)
(* Bounds of the model                                                     *)
(***************************************************************************)
GridWidth == 4
GridHeight == 3
MaxMemories == 2
MaxTransparent == 2
MaxOpaque == 2
SearchGridSize == 11
MaxUsedNeighbours == 3
MaxSubmissions == 2
MaxSubject == 2
StripWidth == 7
MaxImageSide == 2
MaxSampleGrid == 3
MaxAspectSide == 5
MaxTargetCards == 4

(***************************************************************************)
(* Values                                                                  *)
(***************************************************************************)
Null == <<>>
Some(p) == <<p>>
Pos(r, c) == [row |-> r, col |-> c]

Min(S) == CHOOSE x \in S : \A y \in S : x <= y
Max2(a, b) == IF a >= b THEN a ELSE b

\* alpha < 0.1 is the transparency test everywhere, in hundredths
AlphaThreshold == 10
TransparentAlpha == AlphaThreshold - 1
OpaqueAlpha == AlphaThreshold

\* MODE_SCALE_FACTORS: abstract 1, realistic 0.5, as numerator / denominator
MODE_SCALE_FACTORS ==
    [abstract |-> [num |-> 1, den |-> 1], realistic |-> [num |-> 1, den |-> 2]]
MosaicMode == {"abstract", "realistic"}

\* Math.floor(x * s) and Math.floor(x / s) for a scale factor s = num/den
FloorTimes(x, s) == (x * s.num) \div s.den
FloorDiv(x, s) == (x * s.den) \div s.num

(***************************************************************************)
(* Template literal `${row}-${col}`: decimal digits of both numbers joined *)
(* by a dash.                                                              *)
(***************************************************************************)
DigitChar == <<"0", "1", "2", "3", "4", "5", "6", "7", "8", "9">>

RECURSIVE NatToString(_)
NatToString(n) ==
    IF n < 10 THEN <<DigitChar[n + 1]>>
    ELSE NatToString(n \div 10) \o <<DigitChar[(n % 10) + 1]>>

NumberToString(n) == IF n < 0 THEN <<"-">> \o NatToString(-n) ELSE NatToString(n)

PositionKey(p) == NumberToString(p.row) \o <<"-">> \o NumberToString(p.col)

(***************************************************************************)
(* mosaicStore (stores/mosaic)                                             *)
(***************************************************************************)
gridWidth(cfg) == cfg.gridWidth
gridHeight(cfg) == cfg.gridHeight

\* cardColors.find(c => c.position.row === row && c.position.col === col) ?? null
getCardColor(cfg, row, col) ==
    LET hits == {i \in 1..Len(cfg.cardColors) :
                    /\ cfg.cardColors[i].position.row = row
                    /\ cfg.cardColors[i].position.col = col}
    IN IF hits = {} THEN Null ELSE Some(cfg.cardColors[Min(hits)])

\* colorData?.alpha ?? 1
AlphaOrOne(colorData) == IF colorData = Null THEN 100 ELSE colorData[1].alpha

(***************************************************************************)
(* Position resolver (utils/positionResolver)                              *)
(***************************************************************************)
ScaledPosition(originalPosition) ==
    Pos(FloorTimes(originalPosition.row, MODE_SCALE_FACTORS.realistic),
        FloorTimes(originalPosition.col, MODE_SCALE_FACTORS.realistic))

\* mutant: the check against the batch's used positions is left out
isPositionValidForResolution_ignoresUsed(position, cfg, usedPositions) ==
    IF \/ position.row < 0 \/ position.row >= gridHeight(cfg)
       \/ position.col < 0 \/ position.col >= gridWidth(cfg)
    THEN FALSE
    ELSE IF AlphaOrOne(getCardColor(cfg, position.row, position.col)) < AlphaThreshold
    THEN FALSE
    ELSE TRUE

isPositionValidForResolution(position, cfg, usedPositions) ==
    IF \/ position.row < 0 \/ position.row >= gridHeight(cfg)
       \/ position.col < 0 \/ position.col >= gridWidth(cfg)
    THEN FALSE
    ELSE IF AlphaOrOne(getCardColor(cfg, position.row, position.col)) < AlphaThreshold
    THEN FALSE
    ELSE IF PositionKey(position) \in usedPositions
    THEN FALSE
    ELSE TRUE

\* mutant: the bottom cell of a column is pushed before its top cell
getSpiralPositions_bottomFirst(center, radius) ==
    LET n1 == 2 * radius + 1
        n2 == 2 * radius - 1
        rowsPart == [i \in 1..(2 * n1) |->
                        Pos(IF i % 2 = 1 THEN center.row + radius
                                         ELSE center.row - radius,
                            center.col - radius + ((i - 1) \div 2))]
        colsPart == [i \in 1..(2 * n2) |->
                        Pos(center.row - radius + 1 + ((i - 1) \div 2),
                            IF i % 2 = 1 THEN center.col - radius
                                         ELSE center.col + radius)]
    IN rowsPart \o colsPart

\* mutant: one loop per side, whole rows first and whole columns after
getSpiralPositions_sideBySide(center, radius) ==
    LET n1 == 2 * radius + 1
        n2 == 2 * radius - 1
    IN [i \in 1..n1 |-> Pos(center.row - radius, center.col - radius + i - 1)]
       \o [i \in 1..n1 |-> Pos(center.row + radius, center.col - radius + i - 1)]
       \o [i \in 1..n2 |-> Pos(center.row - radius + i, center.col - radius)]
       \o [i \in 1..n2 |-> Pos(center.row - radius + i, center.col + radius)]

\* first loop pushes (top, bottom) per column, second (left, right) per row
getSpiralPositions(center, radius) ==
    LET n1 == 2 * radius + 1
        n2 == 2 * radius - 1
        rowsPart == [i \in 1..(2 * n1) |->
                        Pos(IF i % 2 = 1 THEN center.row - radius
                                         ELSE center.row + radius,
                            center.col - radius + ((i - 1) \div 2))]
        colsPart == [i \in 1..(2 * n2) |->
                        Pos(center.row - radius + 1 + ((i - 1) \div 2),
                            IF i % 2 = 1 THEN center.col - radius
                                         ELSE center.col + radius)]
    IN rowsPart \o colsPart

\* mutant: only the first ring is searched
maxRadius_firstRing(cfg) == 1

maxRadius(cfg) == Max2(gridWidth(cfg), gridHeight(cfg))

\* index of the first valid candidate of a ring, 0 when there is none
FirstValidIndex(candidates, cfg, usedPositions) ==
    LET valid == {i \in 1..Len(candidates) :
                     isPositionValidForResolution(candidates[i], cfg, usedPositions)}
    IN IF valid = {} THEN 0 ELSE Min(valid)

RECURSIVE SearchFromRadius(_, _, _, _)
SearchFromRadius(startPosition, cfg, usedPositions, radius) ==
    IF radius > maxRadius(cfg) THEN Null
    ELSE LET candidates == getSpiralPositions(startPosition, radius)
             k == FirstValidIndex(candidates, cfg, usedPositions)
         IN IF k # 0 THEN Some(candidates[k])
            ELSE SearchFromRadius(startPosition, cfg, usedPositions, radius + 1)

\* mutant: the loop starts at radius 2
findNearestValidUnusedPosition_fromRing2(startPosition, cfg, usedPositions) ==
    SearchFromRadius(startPosition, cfg, usedPositions, 2)

findNearestValidUnusedPosition(startPosition, cfg, usedPositions) ==
    SearchFromRadius(startPosition, cfg, usedPositions, 1)

\* mutant: the scaled candidate is never returned directly
resolvePositionWithCollisionCheck_alwaysSearches(originalPosition, cfg, usedPositions) ==
    LET scaledPosition == ScaledPosition(originalPosition)
        nearest == findNearestValidUnusedPosition(scaledPosition, cfg, usedPositions)
    IN IF nearest # Null THEN nearest[1] ELSE scaledPosition

\* mutant: without a valid cell the canonical position is returned
resolvePositionWithCollisionCheck_fallsBackToOriginal(originalPosition, cfg, usedPositions) ==
    LET scaledPosition == ScaledPosition(originalPosition)
        scaledKey == PositionKey(scaledPosition)
    IN IF /\ isPositionValidForResolution(scaledPosition, cfg, usedPositions)
          /\ scaledKey \notin usedPositions
       THEN scaledPosition
       ELSE LET nearest == findNearestValidUnusedPosition(scaledPosition, cfg,
                                                          usedPositions)
            IN IF nearest # Null THEN nearest[1] ELSE originalPosition

resolvePositionWithCollisionCheck(originalPosition, cfg, usedPositions) ==
    LET scaledPosition == ScaledPosition(originalPosition)
        scaledKey == PositionKey(scaledPosition)
    IN IF /\ isPositionValidForResolution(scaledPosition, cfg, usedPositions)
          /\ scaledKey \notin usedPositions
       THEN scaledPosition
       ELSE LET nearest == findNearestValidUnusedPosition(scaledPosition, cfg,
                                                          usedPositions)
            IN IF nearest # Null THEN nearest[1] ELSE scaledPosition

\* Map.set(key, value)
MapSet(map, key, value) ==
    [k \in (DOMAIN map) \cup {key} |-> IF k = key THEN value ELSE map[k]]
EmptyMap == [k \in {} |-> Null]


(***************************************************************************)
(* Rendering view (components/UnifiedMosaicView): the grid it draws for a  *)
(* mode and the alpha it reads for a cell of that grid (desktop device,    *)
(* deviceCapabilities.gridScale = 1).                                      *)
(***************************************************************************)
viewGridWidth(cfg, mode) == FloorTimes(gridWidth(cfg), MODE_SCALE_FACTORS[mode])
viewGridHeight(cfg, mode) == FloorTimes(gridHeight(cfg), MODE_SCALE_FACTORS[mode])

\* drawRealisticCard / drawAbstractCard / handleCanvasClick: color entry of a
\* cell of the drawn grid, read at the ORIGINAL grid position
viewCardAlpha(cfg, mode, row, col) ==
    AlphaOrOne(getCardColor(cfg, FloorDiv(row, MODE_SCALE_FACTORS[mode]),
                                 FloorDiv(col, MODE_SCALE_FACTORS[mode])))

(***************************************************************************)
(* Inputs of the model                                                     *)
(***************************************************************************)
Cells(w, h) == {Pos(r, c) : r \in 0..(h - 1), c \in 0..(w - 1)}

\* a complete row-major cell table in which exactly the cells of T are
\* transparent
MakeConfig(w, h, T) ==
    [gridWidth |-> w, gridHeight |-> h,
     cardColors |-> [i \in 1..(w * h) |->
        LET p == Pos((i - 1) \div w, (i - 1) % w)
        IN [position |-> p,
            alpha |-> IF p \in T THEN TransparentAlpha ELSE OpaqueAlpha]]]

OpaqueCells(cfg) ==
    {p \in Cells(gridWidth(cfg), gridHeight(cfg)) :
        AlphaOrOne(getCardColor(cfg, p.row, p.col)) >= AlphaThreshold}

\* tables that are opaque up to MaxTransparent cells, or transparent up to
\* MaxOpaque cells
ResolveConfigs ==
    LET all == Cells(GridWidth, GridHeight)
    IN {MakeConfig(GridWidth, GridHeight, T) :
            T \in {S \in SUBSET all : \/ Cardinality(S) <= MaxTransparent
                                      \/ Cardinality(all \ S) <= MaxOpaque}}

\* memory lists with pairwise distinct canonical positions among `all`
MemoryListsOn(all) ==
    UNION {{[i \in 1..n |-> [id |-> i, gridPosition |-> f[i]]] :
               f \in {g \in [1..n -> all] :
                         \A i, j \in 1..n : i # j => g[i] # g[j]}} :
           n \in 0..MaxMemories}

MemoryLists == MemoryListsOn(Cells(GridWidth, GridHeight))

\* the lists of `lists` whose positions ascend in row-major order of a grid
\* of width w
Ascending(lists, w) ==
    {m \in lists :
        \A i \in 1..(Len(m) - 1) :
            m[i].gridPosition.row * w + m[i].gridPosition.col
                < m[i + 1].gridPosition.row * w + m[i + 1].gridPosition.col}

(***************************************************************************)
(* SpecResolve: resolveAllMemoryPositions, one loop iteration per step,    *)
(* called twice on the same arguments.                                     *)
(***************************************************************************)
\* mutant: the set outlives the call and is never cleared
NewTempUsedPositions_kept == tempUsedPositions

\* line 148: const tempUsedPositions = new Set<string>()
NewTempUsedPositions == {}

SearchOff ==
    /\ sStart = Pos(0, 0) /\ sUsed = {} /\ sRadius = 0 /\ sIdx = 0
    /\ sTried = <<>> /\ sResult = Null /\ sPc = "off"

SubmitOff ==
    /\ db = <<>> /\ memories = <<>> /\ selectedCardPosition = <<>>
    /\ isSubmissionFormOpen = <<>> /\ targetPosition = <<>> /\ pc = <<>>
    /\ error = <<>>

AllocOff == aMemories = <<>> /\ aResult = Null /\ aPc = "off"

EngineOff ==
    /\ eMemories = <<>> /\ currentMode = "abstract" /\ eResolved = <<>>
    /\ eSingle = <<>> /\ eNext = <<>>

AnalyzeOff ==
    /\ img = <<>> /\ anGridWidth = 0 /\ anGridHeight = 0 /\ cardColors = <<>>
    /\ anRow = 0 /\ anCol = 0 /\ anPc = "off"

DimOff ==
    /\ dImgWidth = 0 /\ dImgHeight = 0 /\ dTargetCards = 0 /\ dResult = <<>>
    /\ dPc = "off"

StoreOff == store = "off"
FormOff == form = "off"
HomeOff == home = "off"
ViewOff == view = "off"
ModalOff == modal = "off"
UiOff == StoreOff /\ FormOff /\ HomeOff /\ ViewOff /\ ModalOff

ResolveOff ==
    /\ rMemories = <<>> /\ rMode = "abstract" /\ resolutionMap = EmptyMap
    /\ tempUsedPositions = {} /\ rIndex = 0 /\ rPc = "off" /\ rRuns = 0
    /\ firstMap = EmptyMap

InitResolve ==
    /\ config \in ResolveConfigs
    /\ rMemories \in MemoryLists
    /\ rMode \in MosaicMode
    /\ resolutionMap = EmptyMap
    /\ tempUsedPositions = {}
    /\ rIndex = 1
    /\ rPc = "loop"
    /\ rRuns = 1
    /\ firstMap = EmptyMap
    /\ SearchOff
    /\ SubmitOff
    /\ AllocOff
    /\ EngineOff
    /\ AnalyzeOff
    /\ DimOff
    /\ UiOff

\* loop body, mode === 'abstract'
ResolveIterAbstract ==
    /\ rPc = "loop" /\ rIndex <= Len(rMemories) /\ rMode = "abstract"
    /\ LET memory == rMemories[rIndex]
           originalKey == PositionKey(memory.gridPosition)
       IN resolutionMap' = MapSet(resolutionMap, originalKey, memory.gridPosition)
    /\ rIndex' = rIndex + 1
    /\ UNCHANGED <<uiVars, config, rMemories, rMode, tempUsedPositions, rPc, rRuns,
                   firstMap, searchVars, submitVars, allocVars,
                   engineVars, analyzeVars, dimVars>>

\* loop body, realistic mode
ResolveIterRealistic ==
    /\ rPc = "loop" /\ rIndex <= Len(rMemories) /\ rMode # "abstract"
    /\ LET memory == rMemories[rIndex]
           originalKey == PositionKey(memory.gridPosition)
           resolved == resolvePositionWithCollisionCheck(memory.gridPosition,
                                                         config, tempUsedPositions)
       IN /\ resolutionMap' = MapSet(resolutionMap, originalKey, resolved)
          /\ tempUsedPositions' = tempUsedPositions \cup {PositionKey(resolved)}
    /\ rIndex' = rIndex + 1
    /\ UNCHANGED <<uiVars, config, rMemories, rMode, rPc, rRuns, firstMap, searchVars,
                   submitVars, allocVars,
                   engineVars, analyzeVars, dimVars>>

\* return resolutionMap
ResolveReturn ==
    /\ rPc = "loop" /\ rIndex > Len(rMemories)
    /\ rPc' = "done"
    /\ UNCHANGED <<uiVars, config, rMemories, rMode, resolutionMap, tempUsedPositions,
                   rIndex, rRuns, firstMap, searchVars, submitVars, allocVars,
                   engineVars, analyzeVars, dimVars>>

\* the caller keeps the returned map and calls again with the same arguments
ResolveAgain ==
    /\ rPc = "done" /\ rRuns = 1
    /\ firstMap' = resolutionMap
    /\ resolutionMap' = EmptyMap
    /\ tempUsedPositions' = NewTempUsedPositions
    /\ rIndex' = 1
    /\ rPc' = "loop"
    /\ rRuns' = 2
    /\ UNCHANGED <<uiVars, config, rMemories, rMode, searchVars, submitVars, allocVars,
                   engineVars, analyzeVars, dimVars>>

NextResolve ==
    \/ ResolveIterAbstract
    \/ ResolveIterRealistic
    \/ ResolveReturn
    \/ ResolveAgain

SpecResolve == InitResolve /\ [][NextResolve]_vars

\* the whole call as a function of its arguments
RECURSIVE ResolveFrom(_, _, _, _, _, _)
ResolveFrom(mems, mode, cfg, i, map, used) ==
    IF i > Len(mems) THEN map
    ELSE LET key == PositionKey(mems[i].gridPosition)
         IN IF mode = "abstract"
            THEN ResolveFrom(mems, mode, cfg, i + 1,
                             MapSet(map, key, mems[i].gridPosition), used)
            ELSE LET resolved == resolvePositionWithCollisionCheck(
                                     mems[i].gridPosition, cfg, used)
                 IN ResolveFrom(mems, mode, cfg, i + 1,
                                MapSet(map, key, resolved),
                                used \cup {PositionKey(resolved)})

resolveAllMemoryPositions(mems, mode, cfg) ==
    ResolveFrom(mems, mode, cfg, 1, EmptyMap, NewTempUsedPositions)


(***************************************************************************)
(* Properties of batch resolution (SpecResolve)                            *)
(***************************************************************************)
KeyOf(i) == PositionKey(rMemories[i].gridPosition)
Processed == 1..(rIndex - 1)

ResolvedDistinct ==
    \A i, j \in 1..Len(rMemories) :
        i # j => resolutionMap[KeyOf(i)] # resolutionMap[KeyOf(j)]

\* some memory was moved off its scaled candidate by the spiral search
SomeMemoryMoved ==
    \E i \in 1..Len(rMemories) :
        resolutionMap[KeyOf(i)] # ScaledPosition(rMemories[i].gridPosition)

\* C1 (as claimed): after a batch resolution of memories with pairwise
\* distinct canonical positions, in either mode and over any alpha table,
\* the resolved positions of distinct memories are pairwise distinct.
C1_NoCollisions == rPc = "done" => ResolvedDistinct

\* C1 (amended): the resolved positions are pairwise distinct whenever the
\* list holds no more memories than the table has cells of alpha >= 0.1.
C1_NoCollisionsWhenRoom ==
    (rPc = "done" /\ Len(rMemories) <= Cardinality(OpaqueCells(config)))
        => ResolvedDistinct

C1_Witness ==
    /\ rPc = "done" /\ rMode = "realistic" /\ Len(rMemories) = 2
    /\ Len(rMemories) <= Cardinality(OpaqueCells(config))
    /\ ScaledPosition(rMemories[1].gridPosition)
           = ScaledPosition(rMemories[2].gridPosition)
    /\ SomeMemoryMoved

\* a cell of the grid drawn in `mode` that the view draws (alpha >= 0.1 at
\* its color entry) and that no earlier memory of the batch took
ViewValidCell(p, cfg, mode, used) ==
    /\ p.row >= 0 /\ p.row < viewGridHeight(cfg, mode)
    /\ p.col >= 0 /\ p.col < viewGridWidth(cfg, mode)
    /\ viewCardAlpha(cfg, mode, p.row, p.col) >= AlphaThreshold
    /\ PositionKey(p) \notin used

ViewValidCellExists(cfg, mode, used) ==
    \E p \in Cells(gridWidth(cfg), gridHeight(cfg)) : ViewValidCell(p, cfg, mode, used)

InViewBounds(p, cfg, mode) ==
    /\ p.row >= 0 /\ p.row < viewGridHeight(cfg, mode)
    /\ p.col >= 0 /\ p.col < viewGridWidth(cfg, mode)

\* C6: every position returned by coarse-mode resolution lies within the
\* grid of the target mode, 0 <= row < floor(gridHeight*0.5) and
\* 0 <= col < floor(gridWidth*0.5), whenever a valid cell exists there.
C6_WithinTargetBounds ==
    [][(ResolveIterRealistic /\ ViewValidCellExists(config, rMode, tempUsedPositions))
          => InViewBounds(resolutionMap'[KeyOf(rIndex)], config, rMode)]_vars

\* C7: no memory is resolved onto a coarse cell that the coarse renderer and
\* click handler treat as transparent (alpha < 0.1 at canonical
\* (floor(row/0.5), floor(col/0.5))), whenever a non-transparent unused
\* coarse cell exists.
C7_TargetTableAlpha ==
    [][(ResolveIterRealistic /\ ViewValidCellExists(config, rMode, tempUsedPositions))
          => LET p == resolutionMap'[KeyOf(rIndex)]
             IN InViewBounds(p, config, rMode)
                   => viewCardAlpha(config, rMode, p.row, p.col) >= AlphaThreshold]_vars

\* C8: a second batch resolution of the same memory list, mode and mosaic
\* configuration returns the same position map as the first.
C8_Deterministic == (rPc = "done" /\ rRuns = 2) => resolutionMap = firstMap

C8_Witness ==
    /\ rPc = "done" /\ rRuns = 2 /\ rMode = "realistic"
    /\ Len(rMemories) = 2 /\ SomeMemoryMoved

Abs(x) == IF x < 0 THEN -x ELSE x
Chebyshev(p, q) == Max2(Abs(p.row - q.row), Abs(p.col - q.col))

\* the cells the resolver accepts for the used set `used`
ValidCells(cfg, used) ==
    {q \in Cells(gridWidth(cfg), gridHeight(cfg)) :
        isPositionValidForResolution(q, cfg, used)}

\* C11: when the scaled candidate of the memory being processed is not valid
\* and the spiral search returns a cell, that cell is valid and no valid
\* cell has a smaller Chebyshev distance to the scaled candidate.
C11_NearestValid ==
    [][LET s == ScaledPosition(rMemories[rIndex].gridPosition)
           p == resolutionMap'[KeyOf(rIndex)]
       IN (/\ ResolveIterRealistic
           /\ ~isPositionValidForResolution(s, config, tempUsedPositions)
           /\ findNearestValidUnusedPosition(s, config, tempUsedPositions) # Null)
          => /\ p \in ValidCells(config, tempUsedPositions)
             /\ \A q \in ValidCells(config, tempUsedPositions) :
                   Chebyshev(q, s) >= Chebyshev(p, s)]_vars

\* the only memory was moved two rings or more, while a farther valid cell
\* exists as well
C11_Witness ==
    /\ rPc = "done" /\ rMode = "realistic" /\ Len(rMemories) = 1
    /\ LET s == ScaledPosition(rMemories[1].gridPosition)
           p == resolutionMap[KeyOf(1)]
       IN /\ p \in ValidCells(config, {})
          /\ Chebyshev(p, s) >= 2
          /\ \E q \in ValidCells(config, {}) : Chebyshev(q, s) > Chebyshev(p, s)

\* C27: for a memory at an in-bounds canonical position, whenever some
\* in-bounds, non-transparent, unused cell exists the cell returned by
\* coarse-mode resolution is such a cell; the fallback to the scaled
\* candidate happens only when there is none.
C27_FallbackOnlyWhenNoValidCell ==
    [][(ResolveIterRealistic /\ ValidCells(config, tempUsedPositions) # {})
          => resolutionMap'[KeyOf(rIndex)] \in ValidCells(config, tempUsedPositions)]_vars

\* the second memory found its scaled candidate used and was moved to a
\* valid cell two rings or more away
C27_Witness ==
    /\ rPc = "done" /\ rMode = "realistic" /\ Len(rMemories) = 2
    /\ LET s == ScaledPosition(rMemories[2].gridPosition)
           p == resolutionMap[KeyOf(2)]
       IN /\ PositionKey(s) = PositionKey(resolutionMap[KeyOf(1)])
          /\ p \in ValidCells(config, {PositionKey(s)})
          /\ Chebyshev(p, s) >= 2

\* positions returned for the memories before the one being processed
EarlierResults == {resolutionMap[KeyOf(j)] : j \in Processed}

\* C12: batch resolution takes the memories in list order against the
\* cumulative used set: the used set holds exactly the results of the
\* earlier memories; a memory whose scaled candidate is in bounds,
\* non-transparent and not returned for an earlier memory receives that
\* candidate; and its result is in the used set when the next memory is
\* taken.
C12_ListOrderCumulative ==
    [][ResolveIterRealistic =>
          LET s == ScaledPosition(rMemories[rIndex].gridPosition)
              p == resolutionMap'[KeyOf(rIndex)]
          IN /\ tempUsedPositions = {PositionKey(e) : e \in EarlierResults}
             /\ (/\ s.row >= 0 /\ s.row < gridHeight(config)
                 /\ s.col >= 0 /\ s.col < gridWidth(config)
                 /\ AlphaOrOne(getCardColor(config, s.row, s.col)) >= AlphaThreshold
                 /\ s \notin EarlierResults) => p = s
             /\ PositionKey(p) \in tempUsedPositions'
             /\ rIndex' = rIndex + 1]_vars

\* the first memory was moved by the search and the second one, processed
\* after it, sits on its own scaled candidate
C12_Witness ==
    /\ rMode = "realistic" /\ Len(rMemories) = 2 /\ rIndex = 3
    /\ resolutionMap[KeyOf(1)] # ScaledPosition(rMemories[1].gridPosition)
    /\ resolutionMap[KeyOf(2)] = ScaledPosition(rMemories[2].gridPosition)
    /\ Cardinality(tempUsedPositions) = 2


(***************************************************************************)
(* SpecSearch: one call of findNearestValidUnusedPosition, one tested      *)
(* candidate per step.  The call is made when the scaled candidate is not  *)
(* valid: here it is used, together with some of its neighbours, or the    *)
(* whole table is transparent.                                             *)
(***************************************************************************)
Neighbours(p) ==
    {Pos(p.row + dr, p.col + dc) : dr \in {-1, 0, 1}, dc \in {-1, 0, 1}} \ {p}

SearchStarts(w, h) == {ScaledPosition(p) : p \in Cells(w, h)}

InitSearch ==
    /\ \/ /\ config = MakeConfig(SearchGridSize, SearchGridSize, {})
          /\ sStart \in SearchStarts(SearchGridSize, SearchGridSize)
          /\ \E S \in SUBSET Neighbours(sStart) :
                /\ Cardinality(S) <= MaxUsedNeighbours
                /\ sUsed = {PositionKey(q) : q \in S \cup {sStart}}
       \/ /\ config = MakeConfig(GridWidth, GridHeight, Cells(GridWidth, GridHeight))
          /\ sStart \in SearchStarts(GridWidth, GridHeight)
          /\ sUsed = {}
    /\ sRadius = 1
    /\ sIdx = 1
    /\ sTried = <<>>
    /\ sResult = Null
    /\ sPc = "search"
    /\ ResolveOff
    /\ SubmitOff
    /\ AllocOff
    /\ EngineOff
    /\ AnalyzeOff
    /\ DimOff
    /\ UiOff

\* inner loop body: test the next candidate of the ring, return it if valid
TryCandidate ==
    /\ sPc = "search" /\ sRadius <= maxRadius(config)
    /\ LET candidates == getSpiralPositions(sStart, sRadius)
       IN /\ sIdx <= Len(candidates)
          /\ sTried' = Append(sTried, candidates[sIdx])
          /\ IF isPositionValidForResolution(candidates[sIdx], config, sUsed)
             THEN /\ sResult' = Some(candidates[sIdx])
                  /\ sPc' = "done"
                  /\ UNCHANGED sIdx
             ELSE /\ sIdx' = sIdx + 1
                  /\ UNCHANGED <<sResult, sPc>>
    /\ UNCHANGED <<uiVars, config, sStart, sUsed, sRadius, resolveVars, submitVars,
                   allocVars,
                   engineVars, analyzeVars, dimVars>>

\* the ring is exhausted: radius++
NextRing ==
    /\ sPc = "search" /\ sRadius <= maxRadius(config)
    /\ sIdx > Len(getSpiralPositions(sStart, sRadius))
    /\ sRadius' = sRadius + 1
    /\ sIdx' = 1
    /\ UNCHANGED <<uiVars, config, sStart, sUsed, sTried, sResult, sPc, resolveVars,
                   submitVars, allocVars,
                   engineVars, analyzeVars, dimVars>>

\* radius > maxRadius: return null
SearchReturnNull ==
    /\ sPc = "search" /\ sRadius > maxRadius(config)
    /\ sResult' = Null
    /\ sPc' = "done"
    /\ UNCHANGED <<uiVars, config, sStart, sUsed, sRadius, sIdx, sTried, resolveVars,
                   submitVars, allocVars,
                   engineVars, analyzeVars, dimVars>>

NextSearch ==
    \/ TryCandidate
    \/ NextRing
    \/ SearchReturnNull

SpecSearch == InitSearch /\ [][NextSearch]_vars

\* the stepwise search returns what the function used by batch resolution returns
SearchAgreesWithFunction ==
    sPc = "done" => sResult = findNearestValidUnusedPosition(sStart, config, sUsed)

(***************************************************************************)
(* Properties of the spiral search (SpecSearch)                            *)
(***************************************************************************)
TopRow(center, r) == [i \in 1..(2 * r + 1) |-> Pos(center.row - r, center.col - r + i - 1)]
BottomRow(center, r) == [i \in 1..(2 * r + 1) |-> Pos(center.row + r, center.col - r + i - 1)]
LeftColumn(center, r) == [i \in 1..(2 * r - 1) |-> Pos(center.row - r + i, center.col - r)]
RightColumn(center, r) == [i \in 1..(2 * r - 1) |-> Pos(center.row - r + i, center.col + r)]

\* a[1], b[1], a[2], b[2], ...
Interleave(a, b) ==
    [i \in 1..(2 * Len(a)) |-> IF i % 2 = 1 THEN a[(i + 1) \div 2] ELSE b[i \div 2]]

\* ring order as claimed: whole rows, then whole columns
RowsThenColumnsRing(center, r) ==
    TopRow(center, r) \o BottomRow(center, r)
        \o LeftColumn(center, r) \o RightColumn(center, r)

\* ring order alternating top/bottom per column, then left/right per row
AlternatingRing(center, r) ==
    Interleave(TopRow(center, r), BottomRow(center, r))
        \o Interleave(LeftColumn(center, r), RightColumn(center, r))

\* rings 1..r hold 4r(r+1) candidates; the k-th tested candidate lies in ring
RingOfTry(k) == CHOOSE r \in 1..k : 4 * (r - 1) * r < k /\ k <= 4 * r * (r + 1)
OffsetOfTry(k) == k - 4 * (RingOfTry(k) - 1) * RingOfTry(k)

\* the tested candidates follow `ring`, and the returned cell is the first
\* valid one in that order
FollowsRingOrder(ring(_, _)) ==
    /\ \A k \in 1..Len(sTried) :
          sTried[k] = ring(sStart, RingOfTry(k))[OffsetOfTry(k)]
    /\ (sPc = "done" /\ sResult # Null) =>
          /\ sResult = Some(sTried[Len(sTried)])
          /\ \A k \in 1..(Len(sTried) - 1) :
                ~isPositionValidForResolution(sTried[k], config, sUsed)

\* C9 (as claimed): with the scaled candidate (5,5) of canonical (10,10)
\* occupied, the next candidate tried is (4,5) and the one after it (5,4).
C9_NextTried ==
    (sStart = Pos(5, 5) /\ PositionKey(sStart) \in sUsed) =>
        /\ Len(sTried) >= 1 => sTried[1] = Pos(4, 5)
        /\ Len(sTried) >= 2 => sTried[2] = Pos(5, 4)

\* C9 (amended): with (5,5) occupied, the next candidate tried is (4,4) and
\* the one after it (6,4).
C9_NextTriedAlternating ==
    (sStart = Pos(5, 5) /\ PositionKey(sStart) \in sUsed) =>
        /\ Len(sTried) >= 1 => sTried[1] = Pos(4, 4)
        /\ Len(sTried) >= 2 => sTried[2] = Pos(6, 4)

C9_Witness ==
    /\ sStart = ScaledPosition(Pos(10, 10)) /\ sStart = Pos(5, 5)
    /\ PositionKey(sStart) \in sUsed
    /\ Len(sTried) = 2

\* C10 (as claimed): within each ring the search tries the whole top row
\* left-to-right, then the whole bottom row, then the left column and the
\* right column without corners; the first valid cell in that order is
\* returned.
C10_RowsThenColumns == FollowsRingOrder(RowsThenColumnsRing)

\* C10 (amended): within each ring the search tries, column by column from
\* left to right, the top-row cell then the bottom-row cell, and then, row by
\* row from top to bottom without corners, the left-column cell then the
\* right-column cell; the first valid cell in that order is returned.
C10_Alternating == FollowsRingOrder(AlternatingRing)

\* the bottom-left corner is returned although the top row has a valid cell
C10_Witness ==
    /\ sPc = "done"
    /\ sResult = Some(Pos(sStart.row + 1, sStart.col - 1))
    /\ isPositionValidForResolution(Pos(sStart.row - 1, sStart.col), config, sUsed)


(***************************************************************************)
(* memoriesStore (stores/memories)                                         *)
(***************************************************************************)
Max(S) == CHOOSE x \in S : \A y \in S : x >= y

\* memoriesByPosition.get(key) ?? null; a later memory overwrites the key
getMemoryAt(mems, position) ==
    LET hits == {i \in 1..Len(mems) :
                    PositionKey(mems[i].gridPosition) = PositionKey(position)}
    IN IF hits = {} THEN Null ELSE Some(mems[Max(hits)])

hasMemoryAt(mems, position) == getMemoryAt(mems, position) # Null

\* marginPercentage = 0.15, in hundredths
MarginPercent == 15

\* mutant: transparent cells are not skipped
IsValidEmptyPosition_keepsTransparent(mems, cfg, position) ==
    ~hasMemoryAt(mems, position)

\* the two `continue` tests of the scan: not filled, color data present and
\* alpha >= 0.1
IsValidEmptyPosition(mems, cfg, position) ==
    IF hasMemoryAt(mems, position) THEN FALSE
    ELSE LET colorData == getCardColor(cfg, position.row, position.col)
         IN IF colorData = Null \/ AlphaOrOne(colorData) < AlphaThreshold
            THEN FALSE
            ELSE TRUE

\* minRow, maxRow, minCol, maxCol: Math.floor(g * 0.15), Math.ceil(g * 0.85)
MiddleArea(gw, gh) ==
    [minRow |-> (gh * MarginPercent) \div 100,
     maxRow |-> (gh * (100 - MarginPercent) + 99) \div 100,
     minCol |-> (gw * MarginPercent) \div 100,
     maxCol |-> (gw * (100 - MarginPercent) + 99) \div 100]

\* mutant: the lower edges are rounded up
IsMiddlePosition_ceilLower(position, gw, gh) ==
    /\ position.row >= (gh * MarginPercent + 99) \div 100
    /\ position.row < MiddleArea(gw, gh).maxRow
    /\ position.col >= (gw * MarginPercent + 99) \div 100
    /\ position.col < MiddleArea(gw, gh).maxCol

\* row >= minRow && row < maxRow && col >= minCol && col < maxCol
IsMiddlePosition(position, gw, gh) ==
    /\ position.row >= MiddleArea(gw, gh).minRow
    /\ position.row < MiddleArea(gw, gh).maxRow
    /\ position.col >= MiddleArea(gw, gh).minCol
    /\ position.col < MiddleArea(gw, gh).maxCol

\* the scan: rows outside, columns inside
emptyPositions(mems, cfg, gw, gh) ==
    LET scan == [i \in 1..(gw * gh) |-> Pos((i - 1) \div gw, (i - 1) % gw)]
        IsEmpty(p) == IsValidEmptyPosition(mems, cfg, p)
    IN SelectSeq(scan, IsEmpty)

middlePositions(mems, cfg, gw, gh) ==
    LET IsMiddle(p) == IsMiddlePosition(p, gw, gh)
    IN SelectSeq(emptyPositions(mems, cfg, gw, gh), IsMiddle)

\* mutant: the middle area is not preferred
positionsToChooseFrom_all(mems, cfg, gw, gh) == emptyPositions(mems, cfg, gw, gh)

positionsToChooseFrom(mems, cfg, gw, gh) ==
    IF Len(middlePositions(mems, cfg, gw, gh)) > 0
    THEN middlePositions(mems, cfg, gw, gh)
    ELSE emptyPositions(mems, cfg, gw, gh)

\* the set of values getNextEmptyPosition can return (Math.random picks the
\* index)
getNextEmptyPosition(mems, cfg, gw, gh) ==
    LET choose == positionsToChooseFrom(mems, cfg, gw, gh)
    IN IF Len(emptyPositions(mems, cfg, gw, gh)) = 0 THEN {Null}
       ELSE {Some(choose[randomIndex + 1]) : randomIndex \in 0..(Len(choose) - 1)}

(***************************************************************************)
(* SpecAllocate: one call of getNextEmptyPosition                          *)
(***************************************************************************)
\* one-row tables wide enough to have cells outside the middle area; the
\* memory lists are taken up to the order of the memories, which the scan of
\* getNextEmptyPosition does not depend on
StripConfigs ==
    {MakeConfig(StripWidth, 1, T) : T \in SUBSET Cells(StripWidth, 1)}

InitAllocate ==
    /\ \/ /\ config \in ResolveConfigs
          /\ aMemories \in Ascending(MemoryLists, GridWidth)
       \/ /\ config \in StripConfigs
          /\ aMemories \in Ascending(MemoryListsOn(Cells(StripWidth, 1)), StripWidth)
    /\ aResult = Null
    /\ aPc = "call"
    /\ ResolveOff
    /\ SearchOff
    /\ SubmitOff
    /\ EngineOff
    /\ AnalyzeOff
    /\ DimOff
    /\ UiOff

Allocate ==
    /\ aPc = "call"
    /\ aResult' \in getNextEmptyPosition(aMemories, config, gridWidth(config),
                                         gridHeight(config))
    /\ aPc' = "done"
    /\ UNCHANGED <<uiVars, config, aMemories, resolveVars, searchVars, submitVars,
                   engineVars, analyzeVars, dimVars>>

NextAllocate == Allocate

SpecAllocate == InitAllocate /\ [][NextAllocate]_vars

OccupiedPositions(mems) == {mems[i].gridPosition : i \in 1..Len(mems)}

\* C3: for every mosaic configuration and every occupied set, the cell
\* returned by getNextEmptyPosition has alpha >= 0.1 and holds no memory.
C3_NeverTransparentOrOccupied ==
    (aPc = "done" /\ aResult # Null) =>
        /\ AlphaOrOne(getCardColor(config, aResult[1].row, aResult[1].col))
               >= AlphaThreshold
        /\ aResult[1] \notin OccupiedPositions(aMemories)

\* a cell is returned while transparent and occupied cells exist
C3_Witness ==
    /\ aPc = "done" /\ aResult # Null
    /\ Len(aMemories) = 2
    /\ OccupiedPositions(aMemories) \subseteq OpaqueCells(config)
    /\ Cardinality(OpaqueCells(config)) < GridWidth * GridHeight

SeqToSet(seq) == {seq[i] : i \in 1..Len(seq)}

\* the candidates (free, non-transparent cells) and the central subset the
\* allocator built at the call
Candidates == SeqToSet(emptyPositions(aMemories, config, gridWidth(config),
                                      gridHeight(config)))
CentralSubset == SeqToSet(middlePositions(aMemories, config, gridWidth(config),
                                          gridHeight(config)))

\* C15 (as claimed): the central subset is exactly the candidates with
\* 0.15*gridHeight <= row < 0.85*gridHeight and
\* 0.15*gridWidth <= col < 0.85*gridWidth.
C15_CentralSubset ==
    aPc = "done" =>
        CentralSubset =
            {p \in Candidates :
                /\ MarginPercent * gridHeight(config) <= 100 * p.row
                /\ 100 * p.row < (100 - MarginPercent) * gridHeight(config)
                /\ MarginPercent * gridWidth(config) <= 100 * p.col
                /\ 100 * p.col < (100 - MarginPercent) * gridWidth(config)}

\* C15 (amended): the central subset is exactly the candidates with
\* floor(0.15*gridHeight) <= row < 0.85*gridHeight and
\* floor(0.15*gridWidth) <= col < 0.85*gridWidth.
C15_CentralSubsetFloor ==
    aPc = "done" =>
        CentralSubset =
            {p \in Candidates :
                /\ (MarginPercent * gridHeight(config)) \div 100 <= p.row
                /\ 100 * p.row < (100 - MarginPercent) * gridHeight(config)
                /\ (MarginPercent * gridWidth(config)) \div 100 <= p.col
                /\ 100 * p.col < (100 - MarginPercent) * gridWidth(config)}

\* on the strip, column 1 (below 0.15*7 = 1.05) is central and column 0 is
\* a candidate that is not
C15_Witness ==
    /\ aPc = "done" /\ gridWidth(config) = StripWidth
    /\ Pos(0, 1) \in CentralSubset
    /\ Pos(0, 0) \in Candidates \ CentralSubset
    /\ Pos(0, StripWidth - 1) \in Candidates \ CentralSubset

Clients == {"c1", "c2"}

\* tables whose subject (the cells of alpha >= 0.1) is a run of at most
\* MaxSubject adjacent cells of one row
SubjectRuns ==
    {{Pos(r, c + k) : k \in 0..(n - 1)} :
        r \in 0..(GridHeight - 1), c \in 0..(GridWidth - 1),
        n \in 0..MaxSubject}

SubmitConfigs ==
    LET all == Cells(GridWidth, GridHeight)
    IN {MakeConfig(GridWidth, GridHeight, all \ S) :
            S \in {X \in SubjectRuns : X \subseteq all}}

Init ==
    /\ config \in SubmitConfigs
    /\ db = <<>>
    /\ memories = [c \in Clients |-> <<>>]
    /\ selectedCardPosition = [c \in Clients |-> Null]
    /\ isSubmissionFormOpen = [c \in Clients |-> FALSE]
    /\ targetPosition = [c \in Clients |-> Null]
    /\ pc = [c \in Clients |-> "idle"]
    /\ error = [c \in Clients |-> "none"]
    /\ ResolveOff
    /\ SearchOff
    /\ AllocOff
    /\ EngineOff
    /\ AnalyzeOff
    /\ DimOff
    /\ UiOff

\* UnifiedMosaicView.getMemoryAtPosition: first memory whose resolved
\* position in the current mode is (row, col)
getMemoryAtPosition(mems, mode, cfg, row, col) ==
    LET resolvedPositions == resolveAllMemoryPositions(mems, mode, cfg)
        hits == {i \in 1..Len(mems) :
                    resolvedPositions[PositionKey(mems[i].gridPosition)] = Pos(row, col)}
    IN IF hits = {} THEN Null ELSE Some(mems[Min(hits)])

\* subscribeToMemories callback: memories.value = updatedMemories
SnapshotArrives(c) ==
    /\ memories[c] # db
    /\ memories' = [memories EXCEPT ![c] = db]
    /\ UNCHANGED <<uiVars, config, db, selectedCardPosition, isSubmissionFormOpen,
                   targetPosition, pc, error, resolveVars, searchVars, allocVars,
                   engineVars, analyzeVars, dimVars>>

\* handleCanvasClick on a drawn cell without memory, in either mode (the
\* form's overlay covers the canvas while the form is open)
ClickEmptyCard(c) ==
    /\ ~isSubmissionFormOpen[c]
    /\ \E mode \in MosaicMode :
       \E row \in 0..(viewGridHeight(config, mode) - 1) :
       \E col \in 0..(viewGridWidth(config, mode) - 1) :
          /\ viewCardAlpha(config, mode, row, col) >= AlphaThreshold
          /\ getMemoryAtPosition(memories[c], mode, config, row, col) = Null
          /\ selectedCardPosition' =
                [selectedCardPosition EXCEPT
                    ![c] = Some(Pos(FloorDiv(row, MODE_SCALE_FACTORS[mode]),
                                    FloorDiv(col, MODE_SCALE_FACTORS[mode])))]
    /\ isSubmissionFormOpen' = [isSubmissionFormOpen EXCEPT ![c] = TRUE]
    /\ UNCHANGED <<uiVars, config, db, memories, targetPosition, pc, error, resolveVars,
                   searchVars, allocVars,
                   engineVars, analyzeVars, dimVars>>

\* HomeView "add memory" button: uiStore.openSubmissionForm()
OpenSubmissionForm(c) ==
    /\ ~isSubmissionFormOpen[c]
    /\ isSubmissionFormOpen' = [isSubmissionFormOpen EXCEPT ![c] = TRUE]
    /\ UNCHANGED <<uiVars, config, db, memories, selectedCardPosition, targetPosition,
                   pc, error, resolveVars, searchVars, allocVars,
                   engineVars, analyzeVars, dimVars>>

\* closeForm by the user: resetForm(), uiStore.closeSubmissionForm()
CloseForm(c) ==
    /\ isSubmissionFormOpen[c]
    /\ isSubmissionFormOpen' = [isSubmissionFormOpen EXCEPT ![c] = FALSE]
    /\ error' = [error EXCEPT ![c] = "none"]
    /\ UNCHANGED <<uiVars, config, db, memories, selectedCardPosition, targetPosition,
                   pc, resolveVars, searchVars, allocVars,
                   engineVars, analyzeVars, dimVars>>

\* mutant: a selected position is used without the hasMemoryAt check
SubmitTargets_trustsSelection(sel, mems, cfg) ==
    IF sel = Null
    THEN getNextEmptyPosition(mems, cfg, gridWidth(cfg), gridHeight(cfg))
    ELSE {sel}

\* submitForm lines 286-316: the values `targetPosition` can have before the
\* uploads start; Null stands for the thrown 'Mosaic is vol!' error
SubmitTargets(sel, mems, cfg) ==
    LET next == getNextEmptyPosition(mems, cfg, gridWidth(cfg), gridHeight(cfg))
        first == IF sel = Null THEN next ELSE {sel}
        Checked(t) == IF t = Null THEN {Null}
                      ELSE IF hasMemoryAt(mems, t[1]) THEN next
                      ELSE {t}
    IN UNION {Checked(t) : t \in first}

\* submissions started and not failed
Started == Len(db) + Cardinality({c \in Clients : pc[c] = "uploading"})

\* memoriesStore.addMemory -> saveMemory -> setDoc; the client's own listener
\* sees its write at once
NewMemory(position) == [id |-> Len(db) + 1, gridPosition |-> position]

AddMemory(c, position) ==
    /\ db' = Append(db, NewMemory(position))
    /\ memories' = [memories EXCEPT ![c] = Append(memories[c], NewMemory(position))]

\* submitForm, valid form, no position available: throws, caught at once
SubmitFormFull(c) ==
    /\ isSubmissionFormOpen[c] /\ pc[c] = "idle"
    /\ Null \in SubmitTargets(selectedCardPosition[c], memories[c], config)
    /\ error' = [error EXCEPT ![c] = "full"]
    /\ UNCHANGED <<uiVars, config, db, memories, selectedCardPosition,
                   isSubmissionFormOpen, targetPosition, pc, resolveVars,
                   searchVars, allocVars,
                   engineVars, analyzeVars, dimVars>>

\* submitForm, valid form with a photo, up to the first awaited upload
SubmitFormWithPhoto(c) ==
    /\ isSubmissionFormOpen[c] /\ pc[c] = "idle"
    /\ Started < MaxSubmissions
    /\ \E t \in SubmitTargets(selectedCardPosition[c], memories[c], config) \ {Null} :
          targetPosition' = [targetPosition EXCEPT ![c] = t]
    /\ pc' = [pc EXCEPT ![c] = "uploading"]
    /\ error' = [error EXCEPT ![c] = "none"]
    /\ UNCHANGED <<uiVars, config, db, memories, selectedCardPosition,
                   isSubmissionFormOpen, resolveVars, searchVars, allocVars,
                   engineVars, analyzeVars, dimVars>>

\* submitForm, valid form with a quote and no photo: nothing is uploaded and
\* addMemory is called in the same run
SubmitFormTextOnly(c) ==
    /\ isSubmissionFormOpen[c] /\ pc[c] = "idle"
    /\ Started < MaxSubmissions
    /\ \E t \in SubmitTargets(selectedCardPosition[c], memories[c], config) \ {Null} :
          /\ targetPosition' = [targetPosition EXCEPT ![c] = t]
          /\ AddMemory(c, t[1])
    /\ pc' = [pc EXCEPT ![c] = "saved"]
    /\ error' = [error EXCEPT ![c] = "none"]
    /\ UNCHANGED <<uiVars, config, selectedCardPosition, isSubmissionFormOpen,
                   resolveVars, searchVars, allocVars,
                   engineVars, analyzeVars, dimVars>>

\* the awaited uploads resolve: memoryData is built and addMemory is called
UploadsDone(c) ==
    /\ pc[c] = "uploading"
    /\ AddMemory(c, targetPosition[c][1])
    /\ pc' = [pc EXCEPT ![c] = "saved"]
    /\ UNCHANGED <<uiVars, config, selectedCardPosition, isSubmissionFormOpen,
                   targetPosition, error, resolveVars, searchVars, allocVars,
                   engineVars, analyzeVars, dimVars>>

\* an awaited upload rejects: catch block
UploadFails(c) ==
    /\ pc[c] = "uploading"
    /\ pc' = [pc EXCEPT ![c] = "idle"]
    /\ error' = [error EXCEPT ![c] = "failed"]
    /\ targetPosition' = [targetPosition EXCEPT ![c] = Null]
    /\ UNCHANGED <<uiVars, config, db, memories, selectedCardPosition,
                   isSubmissionFormOpen, resolveVars, searchVars, allocVars,
                   engineVars, analyzeVars, dimVars>>

\* addMemory resolved: uiStore.selectCard(null), close timer armed
SubmitSaved(c) ==
    /\ pc[c] = "saved"
    /\ selectedCardPosition' = [selectedCardPosition EXCEPT ![c] = Null]
    /\ pc' = [pc EXCEPT ![c] = "closing"]
    /\ UNCHANGED <<uiVars, config, db, memories, isSubmissionFormOpen, targetPosition,
                   error, resolveVars, searchVars, allocVars,
                   engineVars, analyzeVars, dimVars>>

\* setTimeout callback: closeForm(), isSubmitting = false
CloseTimer(c) ==
    /\ pc[c] = "closing"
    /\ isSubmissionFormOpen' = [isSubmissionFormOpen EXCEPT ![c] = FALSE]
    /\ error' = [error EXCEPT ![c] = "none"]
    /\ targetPosition' = [targetPosition EXCEPT ![c] = Null]
    /\ pc' = [pc EXCEPT ![c] = "idle"]
    /\ UNCHANGED <<uiVars, config, db, memories, selectedCardPosition, resolveVars,
                   searchVars, allocVars,
                   engineVars, analyzeVars, dimVars>>

SubmitForm(c) ==
    \/ SubmitFormFull(c)
    \/ SubmitFormWithPhoto(c)
    \/ SubmitFormTextOnly(c)

Next ==
    \E c \in Clients :
        \/ SnapshotArrives(c)
        \/ ClickEmptyCard(c)
        \/ OpenSubmissionForm(c)
        \/ CloseForm(c)
        \/ SubmitForm(c)
        \/ UploadsDone(c)
        \/ UploadFails(c)
        \/ SubmitSaved(c)
        \/ CloseTimer(c)

Spec == Init /\ [][Next]_vars


(***************************************************************************)
(* Properties of concurrent submissions (Spec)                             *)
(***************************************************************************)
AllocatorFull(mems, cfg) == OccupiedPositions(mems) = OpaqueCells(cfg)

\* the step persists a memory of client c
Persists(c) == Len(db') = Len(db) + 1 /\ pc'[c] = "saved" /\ pc[c] # "saved"

\* C2: after any interleaving of concurrent submissions no two persisted
\* memories have the same gridPosition.
C2_OneMemoryPerPosition ==
    \A i, j \in 1..Len(db) : i # j => db[i].gridPosition # db[j].gridPosition

\* C4: a submission's target position is re-validated against the current
\* occupied set at commit time: a memory is never persisted at a cell that
\* the submitting client's memory list already shows as taken.
C4_RevalidatedAtCommit ==
    [][\A c \in Clients :
          Persists(c) => ~hasMemoryAt(memories[c], db'[Len(db')].gridPosition)]_vars

isValidPosition(position, cfg, mems) ==
    IF \/ position.row < 0 \/ position.row >= gridHeight(cfg)
       \/ position.col < 0 \/ position.col >= gridWidth(cfg)
    THEN FALSE
    ELSE IF AlphaOrOne(getCardColor(cfg, position.row, position.col)) < AlphaThreshold
    THEN FALSE
    ELSE IF hasMemoryAt(mems, position)
    THEN FALSE
    ELSE TRUE

RECURSIVE SearchValidFromRadius(_, _, _, _)
SearchValidFromRadius(startPosition, cfg, mems, radius) ==
    IF radius > maxRadius(cfg) THEN Null
    ELSE LET candidates == getSpiralPositions(startPosition, radius)
             valid == {i \in 1..Len(candidates) :
                          isValidPosition(candidates[i], cfg, mems)}
         IN IF valid # {} THEN Some(candidates[Min(valid)])
            ELSE SearchValidFromRadius(startPosition, cfg, mems, radius + 1)

findNearestValidPosition(startPosition, cfg, mems) ==
    SearchValidFromRadius(startPosition, cfg, mems, 1)

\* mutant: the position is scaled in every mode
resolveMemoryPosition_alwaysScales(originalPosition, mode, cfg, mems) ==
    LET scaledPosition == ScaledPosition(originalPosition)
    IN IF isValidPosition(scaledPosition, cfg, mems) THEN scaledPosition
       ELSE LET nearestPosition == findNearestValidPosition(scaledPosition, cfg, mems)
            IN IF nearestPosition # Null THEN nearestPosition[1]
               ELSE scaledPosition

resolveMemoryPosition(originalPosition, mode, cfg, mems) ==
    IF mode = "abstract" THEN originalPosition
    ELSE LET scaledPosition == ScaledPosition(originalPosition)
         IN IF isValidPosition(scaledPosition, cfg, mems) THEN scaledPosition
            ELSE LET nearestPosition ==
                         findNearestValidPosition(scaledPosition, cfg, mems)
                 IN IF nearestPosition # Null THEN nearestPosition[1]
                    ELSE scaledPosition

(***************************************************************************)
(* SpecEngine: the selecting operations of the engine applied, in any      *)
(* order, to one state of the mosaic store and the memories store.         *)
(***************************************************************************)
EngineConfigs == SubmitConfigs

\* memory lists whose positions ascend in row-major order
EngineMemoryLists == Ascending(MemoryLists, GridWidth)

InitEngine ==
    /\ config \in EngineConfigs
    /\ eMemories \in EngineMemoryLists
    /\ currentMode \in MosaicMode
    /\ eResolved = Null
    /\ eSingle = Null
    /\ eNext = Null
    /\ ResolveOff
    /\ SearchOff
    /\ SubmitOff
    /\ AllocOff
    /\ AnalyzeOff
    /\ DimOff
    /\ UiOff

\* mutant: the allocator claims the cell it picked
EngineAllocate_claimsCell ==
    /\ \E r \in getNextEmptyPosition(eMemories, config, gridWidth(config),
                                     gridHeight(config)) :
          /\ eNext' = Some(r)
          /\ eMemories' = IF r = Null THEN eMemories
                          ELSE Append(eMemories, [id |-> Len(eMemories) + 1,
                                                  gridPosition |-> r[1]])
    /\ UNCHANGED <<uiVars, config, currentMode, eResolved, eSingle, resolveVars,
                   searchVars, submitVars, allocVars, analyzeVars, dimVars>>

\* memoriesStore.getNextEmptyPosition(mosaicStore.gridWidth, mosaicStore.gridHeight)
EngineAllocate ==
    /\ \E r \in getNextEmptyPosition(eMemories, config, gridWidth(config),
                                     gridHeight(config)) :
          eNext' = Some(r)
    /\ UNCHANGED <<uiVars, config, eMemories, currentMode, eResolved, eSingle,
                   resolveVars, searchVars, submitVars, allocVars, analyzeVars,
                   dimVars>>

\* the computed resolvedPositions is evaluated for the current mode
EngineResolveAll ==
    /\ eResolved = Null
    /\ eResolved' = Some(resolveAllMemoryPositions(eMemories, currentMode, config))
    /\ UNCHANGED <<uiVars, config, eMemories, currentMode, eSingle, eNext, resolveVars,
                   searchVars, submitVars, allocVars, analyzeVars, dimVars>>

\* resolveMemoryPosition(memory.gridPosition, mode, mosaicStore, memoriesStore)
EngineResolveOne ==
    /\ \E i \in 1..Len(eMemories) :
          eSingle' = Some([position |-> eMemories[i].gridPosition,
                           mode |-> currentMode,
                           resolved |-> resolveMemoryPosition(
                               eMemories[i].gridPosition, currentMode, config,
                               eMemories)])
    /\ UNCHANGED <<uiVars, config, eMemories, currentMode, eResolved, eNext,
                   resolveVars, searchVars, submitVars, allocVars, analyzeVars,
                   dimVars>>

\* toggleMode: currentMode flips, which invalidates resolvedPositions
ToggleMode ==
    /\ currentMode' = IF currentMode = "abstract" THEN "realistic" ELSE "abstract"
    /\ eResolved' = Null
    /\ UNCHANGED <<uiVars, config, eMemories, eSingle, eNext, resolveVars, searchVars,
                   submitVars, allocVars, analyzeVars, dimVars>>

NextEngine ==
    \/ EngineAllocate
    \/ EngineResolveAll
    \/ EngineResolveOne
    \/ ToggleMode

SpecEngine == InitEngine /\ [][NextEngine]_vars

(***************************************************************************)
(* Properties of the engine operations (SpecEngine)                        *)
(***************************************************************************)
EKey(i) == PositionKey(eMemories[i].gridPosition)
EScaled(i) == ScaledPosition(eMemories[i].gridPosition)

\* used set of the batch when memory i is taken
UsedBefore(map, i) == {PositionKey(map[EKey(j)]) : j \in 1..(i - 1)}

\* cells of the rings 1..max(gridWidth, gridHeight) around a start cell
RingCells(start, cfg) ==
    UNION {LET ring == getSpiralPositions(start, r)
           IN {ring[k] : k \in 1..Len(ring)} : r \in 1..maxRadius(cfg)}

IsPosition(p) == p.row \in Int /\ p.col \in Int

\* C13: resolution always returns a position, and when neither the scaled
\* candidate nor any cell of the rings up to radius max(gridWidth,
\* gridHeight) is valid, the position returned is the scaled candidate; for
\* batch resolution and single-position resolution alike.
C13_NeverFails ==
    /\ eResolved # Null =>
          \A i \in 1..Len(eMemories) :
              LET map == eResolved[1]
                  used == UsedBefore(map, i)
              IN /\ EKey(i) \in DOMAIN map
                 /\ IsPosition(map[EKey(i)])
                 /\ (/\ currentMode = "realistic"
                     /\ \A q \in RingCells(EScaled(i), config) \cup {EScaled(i)} :
                           ~isPositionValidForResolution(q, config, used))
                    => map[EKey(i)] = EScaled(i)
    /\ eSingle # Null =>
          LET s == ScaledPosition(eSingle[1].position)
          IN /\ IsPosition(eSingle[1].resolved)
             /\ (/\ eSingle[1].mode = "realistic"
                 /\ \A q \in RingCells(s, config) \cup {s} :
                       ~isValidPosition(q, config, eMemories))
                => eSingle[1].resolved = s

\* a saturated table (its only non-transparent cell went to the first
\* memory) and a single-position resolution that found nothing either
C13_Witness ==
    /\ eResolved # Null /\ currentMode = "realistic" /\ Len(eMemories) = 2
    /\ Cardinality(OpaqueCells(config)) = 1
    /\ eResolved[1][EKey(1)] \in OpaqueCells(config)
    /\ eResolved[1][EKey(2)] = EScaled(2)
    /\ eResolved[1][EKey(2)] \notin OpaqueCells(config)
    /\ eMemories[2].gridPosition # EScaled(2)
    /\ eSingle # Null /\ eSingle[1].mode = "realistic"
    /\ eSingle[1].resolved \notin OpaqueCells(config)
    /\ eSingle[1].position # eSingle[1].resolved

\* C14: in abstract mode batch resolution maps every memory to its own
\* gridPosition and single-position resolution returns its input position,
\* whatever the table and the other memories are.
C14_CanonicalUnchanged ==
    /\ (eResolved # Null /\ currentMode = "abstract") =>
          \A i \in 1..Len(eMemories) :
              eResolved[1][EKey(i)] = eMemories[i].gridPosition
    /\ (eSingle # Null /\ eSingle[1].mode = "abstract") =>
          eSingle[1].resolved = eSingle[1].position

\* abstract mode, a memory on a transparent cell whose scaled candidate
\* differs from it, resolved both ways
C14_Witness ==
    /\ currentMode = "abstract" /\ eResolved # Null /\ Len(eMemories) = 2
    /\ eSingle # Null /\ eSingle[1].mode = "abstract"
    /\ eSingle[1].position \notin OpaqueCells(config)
    /\ ScaledPosition(eSingle[1].position) # eSingle[1].position

\* C28: for a memory list of one memory, single-position resolution in a
\* mode returns the position batch resolution assigns to that memory in the
\* same mode.
C28_SingleAgreesWithBatch ==
    (/\ Len(eMemories) = 1 /\ eResolved # Null /\ eSingle # Null
     /\ eSingle[1].mode = currentMode)
        => eSingle[1].resolved = eResolved[1][EKey(1)]

\* C17: no step of the allocator, of batch or single-position resolution or
\* of a mode switch (the four actions of SpecEngine) changes the memory list,
\* hence any memory's gridPosition, or the mosaic configuration.
C17_PureSelections == [][eMemories' = eMemories /\ config' = config]_vars

\* every operation has acted on a non-empty memory list
C17_Witness ==
    /\ Len(eMemories) = 2
    /\ eNext # Null /\ eNext[1] # Null
    /\ eResolved # Null
    /\ eSingle # Null /\ eSingle[1].mode # currentMode


(***************************************************************************)
(* photoAnalyzer (utils/photoAnalyzer).  A JavaScript number that is the   *)
(* quotient of two integers is a record [num, den] in lowest terms; 0/0,   *)
(* NaN, is [num |-> 0, den |-> 0].                                         *)
(***************************************************************************)
RECURSIVE GCD(_, _)
GCD(a, b) == IF b = 0 THEN a ELSE GCD(b, a % b)

NaN == [num |-> 0, den |-> 0]
Quotient(n, d) == IF d = 0 THEN NaN ELSE [num |-> n \div GCD(n, d), den |-> d \div GCD(n, d)]
IsNaN(x) == x.den = 0

\* Math.round of a non-negative quotient: floor(x + 0.5)
MathRound(x) == IF IsNaN(x) THEN NaN ELSE Quotient((2 * x.num + x.den) \div (2 * x.den), 1)

HexDigit == <<"0", "1", "2", "3", "4", "5", "6", "7", "8", "9",
              "a", "b", "c", "d", "e", "f">>

RECURSIVE NatToHex(_)
NatToHex(n) ==
    IF n < 16 THEN <<HexDigit[n + 1]>>
    ELSE NatToHex(n \div 16) \o <<HexDigit[(n % 16) + 1]>>

\* toHex: Math.round(n).toString(16), padded to two digits
toHex(x) ==
    IF IsNaN(x) THEN <<"N", "a", "N">>
    ELSE LET hex == NatToHex(MathRound(x).num)
         IN IF Len(hex) = 1 THEN <<"0">> \o hex ELSE hex

rgbToHex(r, g, b) == <<"#">> \o toHex(r) \o toHex(g) \o toHex(b)

\* Math.round(0.299 * r + 0.587 * g + 0.114 * b)
calculateBrightness(r, g, b) ==
    IF IsNaN(r) \/ IsNaN(g) \/ IsNaN(b) THEN NaN
    ELSE MathRound(Quotient(299 * r.num * g.den * b.den + 587 * g.num * r.den * b.den
                                + 114 * b.num * r.den * g.den,
                            1000 * r.den * g.den * b.den))

RECURSIVE SumOver(_, _)
SumOver(f, S) ==
    IF S = {} THEN 0
    ELSE LET x == CHOOSE y \in S : TRUE IN f[x] + SumOver(f, S \ {x})

\* average of the pixels of the rectangle; index = y * canvasWidth + x
getAverageColor(image, startX, startY, width, height, canvasWidth) ==
    LET indices == {y * canvasWidth + x + 1 :
                       x \in startX..(startX + width - 1),
                       y \in startY..(startY + height - 1)}
        pixelCount == Cardinality(indices)
        total(channel) == SumOver([i \in indices |-> image.data[i][channel]], indices)
    IN [r |-> Quotient(total("r"), pixelCount),
        g |-> Quotient(total("g"), pixelCount),
        b |-> Quotient(total("b"), pixelCount),
        a |-> Quotient(total("a"), pixelCount * 255)]

cellWidth(image, gw) == image.width \div gw
cellHeight(image, gh) == image.height \div gh

\* mutant: row and column are swapped in the stored position
CardColorOfCell_transposed(image, gw, gh, row, col) ==
    LET startX == col * cellWidth(image, gw)
        startY == row * cellHeight(image, gh)
        width == Min({cellWidth(image, gw), image.width - startX})
        height == Min({cellHeight(image, gh), image.height - startY})
        avg == getAverageColor(image, startX, startY, width, height, image.width)
    IN [position |-> Pos(col, row),
        backgroundColor |-> rgbToHex(avg.r, avg.g, avg.b),
        brightness |-> calculateBrightness(avg.r, avg.g, avg.b),
        alpha |-> avg.a]

\* body of the two loops of analyzeReferencePhoto for one (row, col)
CardColorOfCell(image, gw, gh, row, col) ==
    LET startX == col * cellWidth(image, gw)
        startY == row * cellHeight(image, gh)
        width == Min({cellWidth(image, gw), image.width - startX})
        height == Min({cellHeight(image, gh), image.height - startY})
        avg == getAverageColor(image, startX, startY, width, height, image.width)
    IN [position |-> Pos(row, col),
        backgroundColor |-> rgbToHex(avg.r, avg.g, avg.b),
        brightness |-> calculateBrightness(avg.r, avg.g, avg.b),
        alpha |-> avg.a]

(***************************************************************************)
(* SpecAnalyze: one call of analyzeReferencePhoto, one grid cell per step  *)
(***************************************************************************)
\* a transparent pixel and an opaque mid-gray one
Pixels == {[r |-> 0, g |-> 0, b |-> 0, a |-> 0],
           [r |-> 128, g |-> 128, b |-> 128, a |-> 255]}

Images ==
    UNION {{[width |-> w, height |-> h, data |-> data] :
               data \in [1..(w * h) -> Pixels]} :
           w \in 1..MaxImageSide, h \in 1..MaxImageSide}

InitAnalyze ==
    /\ img \in Images
    /\ anGridWidth \in 1..MaxSampleGrid
    /\ anGridHeight \in 1..MaxSampleGrid
    /\ cardColors = <<>>
    /\ anRow = 0
    /\ anCol = 0
    /\ anPc = "load"
    /\ config = MakeConfig(0, 0, {})
    /\ ResolveOff
    /\ SearchOff
    /\ SubmitOff
    /\ AllocOff
    /\ EngineOff
    /\ DimOff
    /\ UiOff

\* loadImage resolved, canvas drawn, getImageData returned
AnalyzeLoaded ==
    /\ anPc = "load"
    /\ anPc' = "loop"
    /\ UNCHANGED <<uiVars, config, img, anGridWidth, anGridHeight, cardColors, anRow,
                   anCol, resolveVars, searchVars, submitVars, allocVars,
                   engineVars, dimVars>>

\* loadImage rejected or no 2d context: the error is rethrown
AnalyzeLoadFails ==
    /\ anPc = "load"
    /\ anPc' = "error"
    /\ UNCHANGED <<uiVars, config, img, anGridWidth, anGridHeight, cardColors, anRow,
                   anCol, resolveVars, searchVars, submitVars, allocVars,
                   engineVars, dimVars>>

\* one pass of the inner loop
AnalyzeCell ==
    /\ anPc = "loop" /\ anRow < anGridHeight /\ anCol < anGridWidth
    /\ cardColors' = Append(cardColors,
                            CardColorOfCell(img, anGridWidth, anGridHeight, anRow, anCol))
    /\ IF anCol + 1 < anGridWidth
       THEN anCol' = anCol + 1 /\ anRow' = anRow
       ELSE anCol' = 0 /\ anRow' = anRow + 1
    /\ UNCHANGED <<uiVars, config, img, anGridWidth, anGridHeight, anPc, resolveVars,
                   searchVars, submitVars, allocVars, engineVars, dimVars>>

\* return cardColors
AnalyzeReturn ==
    /\ anPc = "loop" /\ anRow >= anGridHeight
    /\ anPc' = "done"
    /\ UNCHANGED <<uiVars, config, img, anGridWidth, anGridHeight, cardColors, anRow,
                   anCol, resolveVars, searchVars, submitVars, allocVars,
                   engineVars, dimVars>>

NextAnalyze ==
    \/ AnalyzeLoaded
    \/ AnalyzeLoadFails
    \/ AnalyzeCell
    \/ AnalyzeReturn

SpecAnalyze == InitAnalyze /\ [][NextAnalyze]_vars

(***************************************************************************)
(* Properties of the image sampler (SpecAnalyze)                           *)
(***************************************************************************)
\* C18: for gw, gh > 0 the returned table has exactly gw*gh entries and its
\* i-th entry is that of cell ((i-1) div gw, (i-1) mod gw): every cell of
\* the grid once, in row-major order.
C18_CellCoverage ==
    anPc = "done" =>
        /\ Len(cardColors) = anGridWidth * anGridHeight
        /\ \A i \in 1..Len(cardColors) :
              cardColors[i].position = Pos((i - 1) \div anGridWidth,
                                           (i - 1) % anGridWidth)
        /\ {cardColors[i].position : i \in 1..Len(cardColors)}
               = Cells(anGridWidth, anGridHeight)

\* a returned table of a grid that is not square
C18_Witness ==
    /\ anPc = "done" /\ anGridWidth = 3 /\ anGridHeight = 2
    /\ Len(cardColors) = 6

\* C19: when cellWidth or cellHeight is 0 the sampler fails and produces no
\* cell table: no entry is computed and nothing is returned.
C19_InvalidGridError ==
    (anPc # "load" /\ (\/ cellWidth(img, anGridWidth) = 0
                       \/ cellHeight(img, anGridHeight) = 0)) =>
        /\ anPc = "error"
        /\ cardColors = <<>>


UniformGray(image) ==
    \A i \in 1..Len(image.data) :
        image.data[i] = [r |-> 128, g |-> 128, b |-> 128, a |-> 255]

\* C21: sampling an image whose pixels all are R=G=B=128, A=255 yields in
\* every cell color #808080, brightness 128 and alpha 1.0; and the
\* brightness of every cell of every table is a number within 0..255.
C21_UniformGray ==
    anPc = "done" =>
        /\ UniformGray(img) =>
              \A i \in 1..Len(cardColors) :
                  /\ cardColors[i].backgroundColor = <<"#", "8", "0", "8", "0", "8", "0">>
                  /\ cardColors[i].brightness = Quotient(128, 1)
                  /\ cardColors[i].alpha = Quotient(1, 1)
        /\ \A i \in 1..Len(cardColors) :
              /\ cardColors[i].brightness.den = 1
              /\ cardColors[i].brightness.num \in 0..255


(***************************************************************************)
(* SpecDimensions: one call of calculateGridDimensions                     *)
(***************************************************************************)
\* Math.round(Math.sqrt(num / den)): the n with (n - 0.5)^2 <= num/den < (n + 0.5)^2
RoundSqrt(num, den) ==
    CHOOSE n \in 0..(num + 1) :
        /\ (n = 0 \/ (2 * n - 1) * (2 * n - 1) * den <= 4 * num)
        /\ 4 * num < (2 * n + 1) * (2 * n + 1) * den

\* gridHeight = round(sqrt(targetCards / aspectRatio)),
\* gridWidth = round(gridHeight * aspectRatio), aspectRatio = width / height
calculateGridDimensions(width, height, targetCards) ==
    LET gh == RoundSqrt(targetCards * height, width)
        gw == (2 * gh * width + height) \div (2 * height)
    IN [gridWidth |-> gw, gridHeight |-> gh]

InitDimensions ==
    /\ dImgWidth \in 1..MaxAspectSide
    /\ dImgHeight \in 1..MaxAspectSide
    /\ dTargetCards \in 1..MaxTargetCards
    /\ dResult = Null
    /\ dPc = "call"
    /\ config = MakeConfig(0, 0, {})
    /\ ResolveOff
    /\ SearchOff
    /\ SubmitOff
    /\ AllocOff
    /\ EngineOff
    /\ AnalyzeOff
    /\ UiOff

\* the image loads and the dimensions are returned
CalculateGridDimensions ==
    /\ dPc = "call"
    /\ dResult' = Some(calculateGridDimensions(dImgWidth, dImgHeight, dTargetCards))
    /\ dPc' = "done"
    /\ UNCHANGED <<uiVars, config, dImgWidth, dImgHeight, dTargetCards, resolveVars,
                   searchVars, submitVars, allocVars, engineVars, analyzeVars>>

\* loadImage rejects
DimensionsLoadFails ==
    /\ dPc = "call"
    /\ dPc' = "error"
    /\ UNCHANGED <<uiVars, config, dImgWidth, dImgHeight, dTargetCards, dResult,
                   resolveVars, searchVars, submitVars, allocVars, engineVars,
                   analyzeVars>>

NextDimensions ==
    \/ CalculateGridDimensions
    \/ DimensionsLoadFails

SpecDimensions == InitDimensions /\ [][NextDimensions]_vars

\* C20: a returned result has gridWidth >= 1 and gridHeight >= 1; otherwise
\* the call fails.
C20_NoZeroDimension ==
    dPc = "done" => (dResult[1].gridWidth >= 1 /\ dResult[1].gridHeight >= 1)

(***************************************************************************)
(* The mosaic store as an object (stores/mosaic): `config` is null or a    *)
(* configuration object; `oid` tells one object from the next.             *)
(***************************************************************************)
MaxConfigObjects == 2

CoreOff ==
    /\ config = MakeConfig(0, 0, {})
    /\ ResolveOff /\ SearchOff /\ SubmitOff /\ AllocOff /\ EngineOff
    /\ AnalyzeOff /\ DimOff

\* analyzeReferencePhoto: the two loops push one entry per (row, col)
analyzeReferencePhoto(image, gw, gh) ==
    [i \in 1..(gw * gh) |->
        CardColorOfCell(image, gw, gh, (i - 1) \div gw, (i - 1) % gw)]

\* targetCards arguments and `colors` arguments of setCardColors
StoreTargetCards == 1..MaxTargetCards
ColorArrays ==
    {<<>>} \cup {analyzeReferencePhoto(image, 1, 1) :
                    image \in {i \in Images : i.width = 1 /\ i.height = 1}}

InitStore ==
    /\ store = [config |-> Null, isLoading |-> FALSE, error |-> Null,
                call |-> Null, objects |-> 0]
    /\ CoreOff
    /\ FormOff /\ HomeOff /\ ViewOff /\ ModalOff

\* initializeConfig up to its first await
InitializeConfig(referencePhoto, targetCards) ==
    /\ store.call = Null
    /\ store.objects < MaxConfigObjects
    /\ store' = [store EXCEPT !.isLoading = TRUE, !.error = Null,
                              !.call = Some([referencePhoto |-> referencePhoto,
                                             targetCards |-> targetCards])]
    /\ UNCHANGED <<coreVars, form, home, view, modal>>

\* both awaited calls resolve: config.value = { ... }, finally isLoading = false
InitializeConfigStored ==
    /\ store.call # Null
    /\ LET image == store.call[1].referencePhoto
           dims == calculateGridDimensions(image.width, image.height,
                                           store.call[1].targetCards)
       IN store' = [store EXCEPT
               !.config = Some([oid |-> store.objects + 1,
                                gridWidth |-> dims.gridWidth,
                                gridHeight |-> dims.gridHeight,
                                cardColors |->
                                    analyzeReferencePhoto(image, dims.gridWidth,
                                                          dims.gridHeight)]),
               !.objects = store.objects + 1,
               !.isLoading = FALSE,
               !.call = Null]
    /\ UNCHANGED <<coreVars, form, home, view, modal>>

\* an awaited call rejects: catch sets error, finally isLoading = false
InitializeConfigFails ==
    /\ store.call # Null
    /\ store' = [store EXCEPT !.error = Some("Failed to initialize mosaic"),
                              !.isLoading = FALSE, !.call = Null]
    /\ UNCHANGED <<coreVars, form, home, view, modal>>

\* setCardColors: if (config.value) config.value.cardColors = colors
setCardColors(colors) ==
    /\ store' = IF store.config # Null
                THEN [store EXCEPT !.config = Some([store.config[1] EXCEPT
                                                       !.cardColors = colors])]
                ELSE store
    /\ UNCHANGED <<coreVars, form, home, view, modal>>

NextStore ==
    \/ \E referencePhoto \in Images, targetCards \in StoreTargetCards :
          InitializeConfig(referencePhoto, targetCards)
    \/ InitializeConfigStored
    \/ InitializeConfigFails
    \/ \E colors \in ColorArrays : setCardColors(colors)

SpecStore == InitStore /\ [][NextStore]_vars

\* the table of cfg has exactly one entry per (row, col) of its grid
OneEntryPerCell(cfg) ==
    /\ \A p \in Cells(cfg.gridWidth, cfg.gridHeight) :
          Cardinality({i \in 1..Len(cfg.cardColors) :
                          cfg.cardColors[i].position = p}) = 1
    /\ Len(cfg.cardColors) = cfg.gridWidth * cfg.gridHeight

\* C22: a stored configuration object never has its cell table changed, and
\* the stored table always has exactly one entry per cell of its grid.
C22_ImmutableCompleteTable ==
    /\ [](store.config # Null => OneEntryPerCell(store.config[1]))
    /\ [][(store.config # Null /\ store'.config # Null
              /\ store'.config[1].oid = store.config[1].oid)
            => store'.config[1].cardColors = store.config[1].cardColors]_vars

(***************************************************************************)
(* The submission form (SubmissionForm): the refs of one opened form, its  *)
(* validation and what submitForm hands to memoriesStore.addMemory.        *)
(* A text is a sequence of characters; a file ref is null or the kind of   *)
(* the file it holds.                                                      *)
(***************************************************************************)
MaxText == 6
TextChars == {" ", "a"}
Texts == UNION {[1..n -> TextChars] : n \in 0..MaxText}
MemoryTypes == {"quote", "speech", "audio", "video"}

\* String.prototype.trim()
RECURSIVE TrimStart(_)
TrimStart(s) ==
    IF s = <<>> \/ Head(s) # " " THEN s ELSE TrimStart(Tail(s))
RECURSIVE TrimEnd(_)
TrimEnd(s) ==
    IF s = <<>> \/ s[Len(s)] # " " THEN s ELSE TrimEnd(SubSeq(s, 1, Len(s) - 1))
trim(s) == TrimEnd(TrimStart(s))

IsText(t) == t \in {"quote", "speech"}

\* originalPhotoFile.value !== null && gridPhotoFile.value !== null
isPhotoValid(f) == f.originalPhotoFile /\ f.gridPhotoFile

isTypeInputValid(f) ==
    IF f.memoryType = Null THEN TRUE
    ELSE IF IsText(f.memoryType[1]) THEN Len(trim(f.typeInputText)) >= 5
    ELSE f.typeInputFile # Null

\* the form of part_008: a photo, or a quote/speech text without photo
isFormValid(f) ==
    LET hasPhoto == isPhotoValid(f)
        hasText == /\ f.memoryType # Null
                   /\ IsText(f.memoryType[1])
                   /\ Len(trim(f.typeInputText)) >= 5
    IN IF ~hasPhoto /\ ~hasText THEN FALSE
       ELSE IF hasPhoto /\ f.memoryType # Null /\ ~isTypeInputValid(f) THEN FALSE
       ELSE TRUE

\* the form of components/SubmissionForm.vue: one photo ref, 'quote' the only
\* text type
SubmissionForm_isTypeInputValid(f) ==
    IF f.memoryType = Null THEN TRUE
    ELSE IF f.memoryType[1] = "quote" THEN Len(trim(f.typeInputText)) >= 5
    ELSE f.typeInputFile # Null

SubmissionForm_isFormValid(f) ==
    f.originalPhotoFile /\ SubmissionForm_isTypeInputValid(f)

BlankForm ==
    [isOpen |-> TRUE, memoryType |-> Null, originalPhotoFile |-> FALSE,
     gridPhotoFile |-> FALSE, typeInputText |-> <<>>, typeInputFile |-> Null,
     saved |-> Null]

InitForm ==
    /\ form = BlankForm
    /\ CoreOff
    /\ StoreOff /\ HomeOff /\ ViewOff /\ ModalOff

\* handlePhotoUpload with an accepted image: the original is kept and the
\* cropper opens
HandlePhotoUpload ==
    /\ form.isOpen
    /\ form' = [form EXCEPT !.originalPhotoFile = TRUE]
    /\ UNCHANGED <<coreVars, store, home, view, modal>>

\* handleCropConfirm: the cropped square is kept
HandleCropConfirm ==
    /\ form.isOpen /\ form.originalPhotoFile
    /\ form' = [form EXCEPT !.gridPhotoFile = TRUE]
    /\ UNCHANGED <<coreVars, store, home, view, modal>>

\* handleCropCancel: originalPhotoFile.value = null
HandleCropCancel ==
    /\ form.isOpen /\ form.originalPhotoFile
    /\ form' = [form EXCEPT !.originalPhotoFile = FALSE]
    /\ UNCHANGED <<coreVars, store, home, view, modal>>

\* remove button: originalPhotoFile = null; gridPhotoFile = null
RemovePhoto ==
    /\ form.isOpen /\ isPhotoValid(form)
    /\ form' = [form EXCEPT !.originalPhotoFile = FALSE, !.gridPhotoFile = FALSE]
    /\ UNCHANGED <<coreVars, store, home, view, modal>>

\* radio buttons: v-model="memoryType"
SelectType(t) ==
    /\ form.isOpen
    /\ form' = [form EXCEPT !.memoryType = Some(t)]
    /\ UNCHANGED <<coreVars, store, home, view, modal>>

\* "no type" button: memoryType = null; typeInputText = ''; typeInputFile = null
ClearType ==
    /\ form.isOpen /\ form.memoryType # Null
    /\ form' = [form EXCEPT !.memoryType = Null, !.typeInputText = <<>>,
                            !.typeInputFile = Null]
    /\ UNCHANGED <<coreVars, store, home, view, modal>>

\* textarea shown for quote and speech: v-model="typeInputText"
TypeText(text) ==
    /\ form.isOpen /\ form.memoryType # Null /\ IsText(form.memoryType[1])
    /\ form' = [form EXCEPT !.typeInputText = text]
    /\ UNCHANGED <<coreVars, store, home, view, modal>>

\* handleTypeInputFileUpload with an accepted file of the selected type
HandleTypeInputFileUpload ==
    /\ form.isOpen /\ form.memoryType # Null /\ ~IsText(form.memoryType[1])
    /\ form' = [form EXCEPT !.typeInputFile = Some(form.memoryType[1])]
    /\ UNCHANGED <<coreVars, store, home, view, modal>>

\* typeInput of submitForm: the trimmed text, or the uploaded file's URL
TypeInputOf(f) ==
    IF f.memoryType = Null THEN Null
    ELSE IF IsText(f.memoryType[1])
         THEN (IF trim(f.typeInputText) = <<>> THEN Null
               ELSE Some([text |-> trim(f.typeInputText)]))
    ELSE IF f.typeInputFile # Null THEN Some([file |-> f.typeInputFile[1]])
    ELSE Null

\* submitForm of part_008 with addMemory resolved; closeForm follows
FormSubmit ==
    /\ form.isOpen /\ isFormValid(form)
    /\ form' = [BlankForm EXCEPT
                   !.isOpen = FALSE,
                   !.saved = Some([photoUrl |-> isPhotoValid(form),
                                   gridPhotoUrl |-> isPhotoValid(form),
                                   type |-> form.memoryType,
                                   typeInput |-> TypeInputOf(form)])]
    /\ UNCHANGED <<coreVars, store, home, view, modal>>

\* submitForm of components/SubmissionForm.vue with addMemory resolved
FormSubmitPhotoRequired ==
    /\ form.isOpen /\ SubmissionForm_isFormValid(form)
    /\ form' = [BlankForm EXCEPT
                   !.isOpen = FALSE,
                   !.saved = Some([photoUrl |-> form.originalPhotoFile,
                                   gridPhotoUrl |-> FALSE,
                                   type |-> form.memoryType,
                                   typeInput |->
                                       IF form.memoryType # Null
                                          /\ form.memoryType[1] = "speech"
                                       THEN Null ELSE TypeInputOf(form)])]
    /\ UNCHANGED <<coreVars, store, home, view, modal>>

\* closeForm: resetForm(), uiStore.closeSubmissionForm()
FormClose ==
    /\ form.isOpen
    /\ form' = [BlankForm EXCEPT !.isOpen = FALSE]
    /\ UNCHANGED <<coreVars, store, home, view, modal>>

NextForm ==
    \/ HandlePhotoUpload
    \/ HandleCropConfirm
    \/ HandleCropCancel
    \/ RemovePhoto
    \/ \E t \in MemoryTypes : SelectType(t)
    \/ ClearType
    \/ \E text \in Texts : TypeText(text)
    \/ HandleTypeInputFileUpload
    \/ FormSubmit
    \/ FormSubmitPhotoRequired
    \/ FormClose

SpecForm == InitForm /\ [][NextForm]_vars

\* C23: a persisted memory has a photo, and when it has a type it has that
\* type's content: a text of at least 5 characters after trimming for a
\* quote, a file for audio and video.
C23_PhotoAndContentRequired ==
    form.saved # Null =>
        /\ form.saved[1].photoUrl
        /\ form.saved[1].type # Null =>
              /\ form.saved[1].typeInput # Null
              /\ IF IsText(form.saved[1].type[1])
                 THEN Len(form.saved[1].typeInput[1].text) >= 5
                 ELSE form.saved[1].typeInput[1].file \in {"audio", "video"}

(***************************************************************************)
(* The memory modal (MemoryModal) over the ui store's modal refs.  The     *)
(* memories come from the subscription; two memories may carry the same    *)
(* gridPosition (two clients may persist the same cell, see C2).           *)
(***************************************************************************)
MaxModalMemories == 3
ModalGridSide == 2

ModalMemoryLists ==
    UNION {{[i \in 1..n |-> [id |-> i, gridPosition |-> f[i]]] :
               f \in [1..n -> Cells(ModalGridSide, ModalGridSide)]} :
           n \in 0..MaxModalMemories}

\* the comparator of sort: row, then col
RowMajorBefore(a, b) ==
    \/ a.gridPosition.row < b.gridPosition.row
    \/ /\ a.gridPosition.row = b.gridPosition.row
       /\ a.gridPosition.col < b.gridPosition.col

\* [...allMemories].sort(comparator): Array.prototype.sort is stable
sortedMemories(mems) ==
    LET rank(i) == Cardinality({j \in 1..Len(mems) :
                        \/ RowMajorBefore(mems[j], mems[i])
                        \/ (~RowMajorBefore(mems[i], mems[j]) /\ j < i)}) + 1
    IN [k \in 1..Len(mems) |-> mems[CHOOSE i \in 1..Len(mems) : rank(i) = k]]

\* sortedMemories.findIndex(m => same row and col), 0-based; -1 when absent
findIndex(sorted, currentPos) ==
    LET hits == {i \in 1..Len(sorted) : sorted[i].gridPosition = currentPos}
    IN IF hits = {} THEN -1 ELSE Min(hits) - 1

getPreviousMemoryPosition(mems, open) ==
    IF open = Null THEN Null
    ELSE LET sorted == sortedMemories(mems)
             currentIndex == findIndex(sorted, open[1])
         IN IF currentIndex > 0
            THEN Some(sorted[currentIndex].gridPosition)
            ELSE Null

getNextMemoryPosition(mems, open) ==
    IF open = Null THEN Null
    ELSE LET sorted == sortedMemories(mems)
             currentIndex == findIndex(sorted, open[1])
         IN IF currentIndex >= 0 /\ currentIndex < Len(sorted) - 1
            THEN Some(sorted[currentIndex + 2].gridPosition)
            ELSE Null

InitModal ==
    /\ modal = [memories |-> <<>>, openMemoryPosition |-> Null,
                isMemoryFlipped |-> FALSE]
    /\ CoreOff
    /\ StoreOff /\ FormOff /\ HomeOff /\ ViewOff

\* subscription callback: memories.value = updatedMemories
ModalSnapshot(updatedMemories) ==
    /\ modal' = [modal EXCEPT !.memories = updatedMemories]
    /\ UNCHANGED <<coreVars, store, form, home, view>>

\* click on the card of a memory: uiStore.openMemory(memory.gridPosition)
openMemory(position) ==
    /\ modal.openMemoryPosition = Null
    /\ \E i \in 1..Len(modal.memories) : modal.memories[i].gridPosition = position
    /\ modal' = [modal EXCEPT !.openMemoryPosition = Some(position),
                              !.isMemoryFlipped = FALSE]
    /\ UNCHANGED <<coreVars, store, form, home, view>>

closeMemory ==
    /\ modal.openMemoryPosition # Null
    /\ modal' = [modal EXCEPT !.openMemoryPosition = Null,
                              !.isMemoryFlipped = FALSE]
    /\ UNCHANGED <<coreVars, store, form, home, view>>

flipMemory ==
    /\ modal.openMemoryPosition # Null
    /\ modal' = [modal EXCEPT !.isMemoryFlipped = ~modal.isMemoryFlipped]
    /\ UNCHANGED <<coreVars, store, form, home, view>>

\* uiStore.navigateToMemory(position)
navigateToMemory(m, position) ==
    [m EXCEPT !.openMemoryPosition = Some(position), !.isMemoryFlipped = FALSE]

navigatePrevious ==
    /\ modal.openMemoryPosition # Null
    /\ LET prev == getPreviousMemoryPosition(modal.memories,
                                             modal.openMemoryPosition)
       IN modal' = IF prev # Null THEN navigateToMemory(modal, prev[1]) ELSE modal
    /\ UNCHANGED <<coreVars, store, form, home, view>>

navigateNext ==
    /\ modal.openMemoryPosition # Null
    /\ LET next == getNextMemoryPosition(modal.memories,
                                         modal.openMemoryPosition)
       IN modal' = IF next # Null THEN navigateToMemory(modal, next[1]) ELSE modal
    /\ UNCHANGED <<coreVars, store, form, home, view>>

NextModal ==
    \/ \E updatedMemories \in ModalMemoryLists : ModalSnapshot(updatedMemories)
    \/ \E position \in Cells(ModalGridSide, ModalGridSide) : openMemory(position)
    \/ closeMemory
    \/ flipMemory
    \/ navigatePrevious
    \/ navigateNext

SpecModal == InitModal /\ [][NextModal]_vars

\* C30: from an open memory with a successor, next followed by previous
\* gives the open position again; previous at the first and next at the last
\* memory change nothing; every change of the open position leaves the card
\* unflipped.
C30_ReversibleNavigation ==
    /\ [](LET next == getNextMemoryPosition(modal.memories,
                                            modal.openMemoryPosition)
          IN next # Null =>
                getPreviousMemoryPosition(modal.memories, next)
                    = modal.openMemoryPosition)
    /\ [][/\ (navigatePrevious
                /\ getPreviousMemoryPosition(modal.memories,
                                             modal.openMemoryPosition) = Null)
             => modal' = modal
          /\ (navigateNext
                /\ getNextMemoryPosition(modal.memories,
                                         modal.openMemoryPosition) = Null)
             => modal' = modal
          /\ (modal'.openMemoryPosition # modal.openMemoryPosition)
             => ~modal'.isMemoryFlipped]_vars

(***************************************************************************)
(* The page: HomeView with its LoadingScreen, and UnifiedMosaicView with   *)
(* its hidden canvas, the viewer, the per-mode cache and the asynchronous  *)
(* image loads in flight.                                                  *)
(*   - memoriesStore.memories is represented by its length; memory k of    *)
(*     1..length has a photo;                                              *)
(*   - a canvas image (data URL) is a record: the mode it was drawn for,   *)
(*     the element's width and height at that moment, the memories whose   *)
(*     photo was drawn and the length of the list it was drawn from;       *)
(*   - a task is a pending `await` of loadMemoryImages: what continues     *)
(*     after it, and the memories whose images it loads.                   *)
(***************************************************************************)
MaxViewMemories == 2
MaxTasks == 2

CARD_SIZE == 100
maxDimension == 8192

\* deviceCapabilities, in hundredths: desktop, mobile, low-end mobile
Devices ==
    {[scaleFactor |-> 100, gridScale |-> 100],
     [scaleFactor |-> 40, gridScale |-> 80],
     [scaleFactor |-> 25, gridScale |-> 60]}

\* gridWidth and gridHeight of the pre-generated configuration
PregeneratedGrid == [gridWidth |-> 90, gridHeight |-> 60]

\* computed gridWidth / gridHeight of the view:
\* Math.floor(mosaicStore.gridWidth * modeScaleFactor * deviceGridScale)
deviceGridWidth(v, mode) ==
    (v.mosaic.gridWidth * MODE_SCALE_FACTORS[mode].num * v.device.gridScale)
        \div (MODE_SCALE_FACTORS[mode].den * 100)
deviceGridHeight(v, mode) ==
    (v.mosaic.gridHeight * MODE_SCALE_FACTORS[mode].num * v.device.gridScale)
        \div (MODE_SCALE_FACTORS[mode].den * 100)

\* Math.floor(gridWidth.value * CARD_SIZE * scaleFactor), same for the height
TargetSize(v, mode) ==
    [width |-> (deviceGridWidth(v, mode) * CARD_SIZE * v.device.scaleFactor) \div 100,
     height |-> (deviceGridHeight(v, mode) * CARD_SIZE * v.device.scaleFactor) \div 100]

\* initCanvas: sizes above maxDimension are scaled by
\* Math.min(maxDimension / targetWidth, maxDimension / targetHeight)
FitCanvas(target) ==
    IF target.width > maxDimension \/ target.height > maxDimension
    THEN LET longest == Max2(target.width, target.height)
         IN [width |-> (target.width * maxDimension) \div longest,
             height |-> (target.height * maxDimension) \div longest]
    ELSE target

\* ---- HomeView ----
checkIfReadyForIntro(h) ==
    IF h.mosaicReady
    THEN [h EXCEPT !.showLoading = FALSE, !.showIntro = TRUE,
                   !.introShown = IF h.showIntro THEN @ ELSE @ + 1]
    ELSE h

handleMosaicReady(h) == checkIfReadyForIntro([h EXCEPT !.mosaicReady = TRUE])

handleLoadingComplete(h) == checkIfReadyForIntro([h EXCEPT !.completeFired = TRUE])

\* ---- UnifiedMosaicView ----
\* isLoading: mosaicStore.isLoading || memoriesStore.isLoading || !imagesLoaded
viewIsLoading(v) == v.mosaicLoading \/ v.memoriesLoading \/ ~v.imagesLoaded

\* canvasRef.value.toDataURL()
toDataURL(v) == v.canvas.drawn

\* updateCanvasDimensions: the refs only, the element keeps its size
updateCanvasDimensions(v) ==
    [v EXCEPT !.canvasWidth = TargetSize(v, v.currentMode).width,
              !.canvasHeight = TargetSize(v, v.currentMode).height]

\* drawMosaic: cards of the current mode are drawn on the element as it is,
\* with the photos present in memoryImages, and the result is cached
drawMosaic(v) ==
    IF ~v.ctx \/ ~v.referenceImage THEN v
    ELSE LET image == [mode |-> v.currentMode,
                       width |-> v.canvas.width,
                       height |-> v.canvas.height,
                       photos |-> v.memoryImages \cap (1..v.memories),
                       memories |-> v.memories]
         IN [v EXCEPT !.canvas.drawn = Some(image),
                      !.canvasCache[v.currentMode] = Some(image)]

\* initOpenSeadragon: the viewer is created on the canvas image; no emit
initOpenSeadragon(v) ==
    [v EXCEPT !.viewer = TRUE, !.shown = toDataURL(v)]

\* updateOpenSeadragonImage: cache, viewer.open, 'ready' on the first call
updateOpenSeadragonImage(v) ==
    IF ~v.viewer THEN v
    ELSE [v EXCEPT !.canvasCache[v.currentMode] = toDataURL(v),
                   !.shown = toDataURL(v),
                   !.isInitialLoadComplete = TRUE,
                   !.ready = IF v.isInitialLoadComplete THEN @ ELSE @ + 1]

\* initCanvas after `await loadMemoryImages()`
initCanvas_loaded(v) ==
    LET drawn == drawMosaic([v EXCEPT !.imagesLoaded = TRUE])
    IN IF ~drawn.viewer THEN initOpenSeadragon(drawn)
       ELSE updateOpenSeadragonImage(drawn)

\* the watcher's loadMemoryImages().then(...)
watch_loaded(v) == updateOpenSeadragonImage(drawMosaic(v))

\* loadMemoryImages up to its await: memoryImages.clear() and one load per
\* memory; without memories the await yields no other task a turn
loadMemoryImages(v, kind) ==
    LET cleared == [v EXCEPT !.memoryImages = {}]
    IN IF v.memories = 0
       THEN (IF kind = "initCanvas" THEN initCanvas_loaded(cleared)
             ELSE watch_loaded(cleared))
       ELSE [cleared EXCEPT !.tasks = Append(@, [kind |-> kind,
                                                  loading |-> 1..v.memories])]

\* initCanvas with the reference image present, up to `await loadMemoryImages()`
initCanvas(v) ==
    LET size == FitCanvas(TargetSize(v, v.currentMode))
    IN loadMemoryImages(
           [v EXCEPT !.canvasWidth = size.width,
                     !.canvasHeight = size.height,
                     !.canvas = [width |-> size.width, height |-> size.height,
                                 drawn |-> Null],
                     !.ctx = TRUE],
           "initCanvas")

\* watch(() => memoriesStore.memories.length): runs when the length changed
watchMemories(v, before) ==
    IF v.memories # before /\ v.ctx /\ v.imagesLoaded /\ v.viewer
    THEN loadMemoryImages([v EXCEPT !.canvasCache = [m \in MosaicMode |-> Null]],
                          "watch")
    ELSE v

\* room for the task a handler may add
TaskRoom(v) == v.memories = 0 \/ Len(v.tasks) < MaxTasks

InitView ==
    /\ \E device \in Devices :
          view = [pc |-> "setup", device |-> device,
                  mosaic |-> [gridWidth |-> 0, gridHeight |-> 0],
                  mosaicLoading |-> FALSE, memoriesLoading |-> FALSE,
                  memories |-> 0, snapshots |-> 0,
                  currentMode |-> "abstract",
                  canvasWidth |-> 0, canvasHeight |-> 0,
                  canvas |-> [width |-> 300, height |-> 150, drawn |-> Null],
                  ctx |-> FALSE, viewer |-> FALSE, imagesLoaded |-> FALSE,
                  isInitialLoadComplete |-> FALSE, referenceImage |-> FALSE,
                  loadError |-> FALSE, memoryImages |-> {},
                  canvasCache |-> [m \in MosaicMode |-> Null],
                  shown |-> Null, tasks |-> <<>>, ready |-> 0]
    /\ home = [showLoading |-> TRUE, showIntro |-> FALSE, mosaicReady |-> FALSE,
               showMosaicHint |-> FALSE, timer |-> "armed",
               completeFired |-> FALSE, introShown |-> 0]
    /\ CoreOff
    /\ StoreOff /\ FormOff /\ ModalOff

\* a step of the view; an emitted 'ready' runs HomeView's handler at once
ViewStep(v) ==
    /\ view' = v
    /\ home' = IF v.ready > view.ready THEN handleMosaicReady(home) ELSE home
    /\ UNCHANGED <<coreVars, store, form, modal>>

\* onMounted up to `await import(...)`: loadMemories subscribes
ViewMount ==
    /\ view.pc = "setup"
    /\ ViewStep([view EXCEPT !.pc = "config", !.memoriesLoading = TRUE,
                             !.mosaicLoading = TRUE])

\* the configuration is stored; nextTick; initCanvas up to loadReferenceImage
ViewConfigLoaded ==
    /\ view.pc = "config"
    /\ ViewStep([view EXCEPT !.pc = "reference", !.mosaic = PregeneratedGrid,
                             !.mosaicLoading = FALSE])

\* reference and heart image loaded: initCanvas goes on
ViewReferenceLoaded ==
    /\ view.pc = "reference"
    /\ TaskRoom(view)
    /\ ViewStep(initCanvas([view EXCEPT !.pc = "running",
                                        !.referenceImage = TRUE]))

\* the reference image fails to load: loadError, return
ViewReferenceFails ==
    /\ view.pc = "reference"
    /\ ViewStep([view EXCEPT !.pc = "failed", !.loadError = TRUE])

\* the first snapshot of the subscription, with n memories
FirstSnapshot(n) ==
    /\ view.pc # "setup" /\ view.snapshots = 0
    /\ TaskRoom([view EXCEPT !.memories = n])
    /\ ViewStep(watchMemories([view EXCEPT !.memories = n, !.snapshots = 1,
                                           !.memoriesLoading = FALSE],
                              view.memories))

\* a later snapshot that delivers one new memory
NewMemorySnapshot ==
    /\ view.snapshots = 1 /\ view.memories < MaxViewMemories
    /\ Len(view.tasks) < MaxTasks
    /\ ViewStep(watchMemories([view EXCEPT !.memories = @ + 1], view.memories))

\* the mode buttons, shown once the page and the view are visible:
\* currentMode = m; initCanvas()
ModeControlsVisible ==
    ~home.showLoading /\ ~home.showIntro /\ ~viewIsLoading(view)

ClickMode(m) ==
    /\ ModeControlsVisible
    /\ TaskRoom(view)
    /\ ViewStep(initCanvas([view EXCEPT !.currentMode = m]))

\* toggleMode (no control of this template calls it; enabled where the mode
\* buttons are): the cached image is opened, or the canvas is redrawn
toggleMode ==
    /\ ModeControlsVisible
    /\ TaskRoom(view)
    /\ LET newMode == IF view.currentMode = "abstract" THEN "realistic"
                      ELSE "abstract"
           switched == [view EXCEPT !.currentMode = newMode]
           cached == view.canvasCache[newMode]
       IN ViewStep(IF cached # Null /\ view.viewer
                   THEN updateCanvasDimensions([switched EXCEPT !.shown = cached])
                   ELSE initCanvas(switched))

\* the image loads of task i have all finished: Promise.all resolves
ImagesLoaded(i) ==
    /\ i \in 1..Len(view.tasks)
    /\ LET task == view.tasks[i]
           rest == [view EXCEPT
                       !.tasks = SubSeq(@, 1, i - 1) \o SubSeq(@, i + 1, Len(@)),
                       !.memoryImages = @ \cup task.loading]
       IN ViewStep(IF task.kind = "initCanvas" THEN initCanvas_loaded(rest)
                   ELSE watch_loaded(rest))

\* LoadingScreen's setTimeout callback: emit('complete'), which reaches
\* HomeView only while the LoadingScreen is mounted
LoadingTimerFires ==
    /\ home.timer = "armed"
    /\ home' = IF home.showLoading
               THEN handleLoadingComplete([home EXCEPT !.timer = "fired"])
               ELSE [home EXCEPT !.timer = "fired"]
    /\ UNCHANGED <<coreVars, store, form, view, modal>>

\* IntroPhotoCurtain emits 'complete'
handleIntroComplete ==
    /\ home.showIntro
    /\ home' = [home EXCEPT !.showIntro = FALSE, !.showMosaicHint = TRUE]
    /\ UNCHANGED <<coreVars, store, form, view, modal>>

NextView ==
    \/ ViewMount
    \/ ViewConfigLoaded
    \/ ViewReferenceLoaded
    \/ ViewReferenceFails
    \/ \E n \in 0..MaxViewMemories : FirstSnapshot(n)
    \/ NewMemorySnapshot
    \/ \E m \in MosaicMode : ClickMode(m)
    \/ toggleMode
    \/ \E i \in 1..MaxTasks : ImagesLoaded(i)
    \/ LoadingTimerFires
    \/ handleIntroComplete

SpecView == InitView /\ [][NextView]_vars

\* what the page does by itself is eventually done: the awaited imports and
\* image loads settle, the subscription delivers its first snapshot, the two
\* timers fire.  A later snapshot and a click may never come.
SpecViewLive ==
    /\ SpecView
    /\ WF_vars(ViewMount)
    /\ WF_vars(ViewConfigLoaded)
    /\ WF_vars(ViewReferenceLoaded \/ ViewReferenceFails)
    /\ WF_vars(\E n \in 0..MaxViewMemories : FirstSnapshot(n))
    /\ WF_vars(\E i \in 1..MaxTasks : ImagesLoaded(i))
    /\ WF_vars(LoadingTimerFires)
    /\ WF_vars(handleIntroComplete)

\* C26: the intro is only shown once the LoadingScreen's 'complete' event has
\* fired, and showIntro becomes true at most once.
C26_IntroAfterLoadingComplete ==
    /\ home.introShown >= 1 => home.completeFired
    /\ home.introShown <= 1

\* C29: an image drawn and cached for a mode has the width and height that
\* initCanvas computes for that mode.
C29_CachedImageHasModeDimensions ==
    \A m \in MosaicMode :
        view.canvasCache[m] # Null =>
            /\ view.canvasCache[m][1].width = FitCanvas(TargetSize(view, m)).width
            /\ view.canvasCache[m][1].height = FitCanvas(TargetSize(view, m)).height

\* the viewer shows an image drawn with the photo of memory k
ShownWithPhoto(k) == view.shown # Null /\ k \in view.shown[1].photos

\* the viewer shows an image drawn from a list that held memory k
ShownSince(k) == view.shown # Null /\ view.shown[1].memories >= k

\* C24: once memory k has been delivered, the viewer eventually shows an image
\* drawn with its photo, unless the view failed to load; and once an image
\* drawn after the delivery is shown, no image drawn before it is shown again.
C24_RealTimeUpdate ==
    /\ \A k \in 1..MaxViewMemories :
          (view.memories >= k) ~> (ShownWithPhoto(k) \/ view.loadError)
    /\ [][\A k \in 1..MaxViewMemories :
             ShownSince(k) => ShownSince(k)']_vars

\* C25: once the viewer has been created 'ready' is eventually emitted, and
\* it is emitted at most once.
C25_ReadyEventuallyOnce ==
    /\ view.viewer ~> (view.ready >= 1)
    /\ [](view.ready <= 1)

====
